---- MODULE Spec2Model ----
(***************************************************************************)
(* Model of the Proxmox MCP server's request layer (src/src/index.ts):     *)
(* getTicket, makeRequest and the tool handlers that call them, run as     *)
(* asynchronous call chains against a remote control plane whose answers   *)
(* are chosen nondeterministically.                                        *)
(***************************************************************************)
EXTENDS FiniteSets, Integers, Sequences, TLC

VARIABLES env, remote, chain, wire, last, server

vars == <<env, remote, chain, wire, last, server>>

(***************************************************************************)
(* Bounds of the model.                                                    *)
(***************************************************************************)
\* Total number of tool invocations in a behaviour.
MaxInvocations == 3

\* The concurrently running call chains (two simultaneous client requests).
Chains == {"c1", "c2"}

(***************************************************************************)
(* JavaScript / JSON values.                                               *)
(***************************************************************************)
Undefined == [t |-> "undefined"]
Null == [t |-> "null"]
Str(s) == [t |-> "string", s |-> s]
Num(n) == [t |-> "number", n |-> n]
Bool(b) == [t |-> "boolean", b |-> b]
\* An object is the sequence of its <<key, value>> entries in property order.
Obj(es) == [t |-> "object", entries |-> es]
Arr(xs) == [t |-> "array", items |-> xs]

\* JavaScript truthiness, as used by `if (x)` and `x ? a : b`.
Truthy(v) ==
  CASE v.t = "undefined" -> FALSE
    [] v.t = "null" -> FALSE
    [] v.t = "string" -> v.s # ""
    [] v.t = "number" -> v.n # 0
    [] v.t = "boolean" -> v.b
    [] OTHER -> TRUE

\* Optional property access `o?.key`: undefined unless o is an object that has key.
Get(o, key) ==
  IF o.t = "object" /\ \E i \in 1..Len(o.entries) : o.entries[i][1] = key
  THEN LET i == CHOOSE j \in 1..Len(o.entries) : o.entries[j][1] = key
       IN o.entries[i][2]
  ELSE Undefined

\* Does the parsed body have the property at all?
Has(o, key) == o.t = "object" /\ \E i \in 1..Len(o.entries) : o.entries[i][1] = key

RECURSIVE Join(_, _)
\* Array.prototype.join on a sequence of strings.
Join(strs, sep) ==
  IF Len(strs) = 0 THEN ""
  ELSE IF Len(strs) = 1 THEN strs[1]
  ELSE strs[1] \o sep \o Join(Tail(strs), sep)

\* String(v) as applied by a template literal `${v}` to the values used here.
TemplateStr(v) ==
  CASE v.t = "string" -> v.s
    [] v.t = "number" -> ToString(v.n)
    [] v.t = "boolean" -> IF v.b THEN "true" ELSE "false"
    [] v.t = "null" -> "null"
    [] v.t = "undefined" -> "undefined"
    [] v.t = "array" -> "[array]"
    [] OTHER -> "[object Object]"

\* Object.entries: an object's own entries; an array's entries keyed by index.
ObjectEntries(v) ==
  CASE v.t = "object" -> v.entries
    [] v.t = "array" -> [i \in 1..Len(v.items) |-> <<ToString(i - 1), v.items[i]>>]
    [] OTHER -> <<>>

\* FormatErrors with the entries joined by ", " instead of "; ".
FormatErrorsComma(errors) ==
  LET es == ObjectEntries(errors)
  IN Join([i \in 1..Len(es) |-> es[i][1] \o ": " \o TemplateStr(es[i][2])], ", ")

\* Object.entries(errors).map(([k, v]) => `${k}: ${v}`).join('; ')
FormatErrors(errors) ==
  LET es == ObjectEntries(errors)
  IN Join([i \in 1..Len(es) |-> es[i][1] \o ": " \o TemplateStr(es[i][2])], "; ")

RECURSIVE Stringify(_, _)
\* JSON.stringify(v, null, 2) for a value that is not undefined; ind is the
\* indentation already in effect.
Stringify(v, ind) ==
  LET in2 == ind \o "  "
      kept == IF v.t = "object"
                THEN SelectSeq(v.entries, LAMBDA e : e[2].t # "undefined")
                ELSE <<>>
  IN CASE v.t = "string" -> "\"" \o v.s \o "\""
       [] v.t = "number" -> ToString(v.n)
       [] v.t = "boolean" -> IF v.b THEN "true" ELSE "false"
       [] v.t = "null" -> "null"
       [] v.t = "array" ->
            IF Len(v.items) = 0 THEN "[]"
            ELSE "[\n"
                 \o Join([i \in 1..Len(v.items) |->
                            in2 \o (IF v.items[i].t = "undefined" THEN "null"
                                    ELSE Stringify(v.items[i], in2))], ",\n")
                 \o "\n" \o ind \o "]"
       [] v.t = "object" ->
            IF Len(kept) = 0 THEN "{}"
            ELSE "{\n"
                 \o Join([i \in 1..Len(kept) |->
                            in2 \o "\"" \o kept[i][1] \o "\": "
                            \o Stringify(kept[i][2], in2)], ",\n")
                 \o "\n" \o ind \o "}"

\* JSON.stringify(v, null, 2) as a JavaScript value: undefined stays undefined.
JSONStringify(v) == IF v.t = "undefined" THEN Undefined ELSE Str(Stringify(v, ""))

\* Property access `v.key`: a TypeError on undefined and null, the own
\* property of an object, undefined on any other value.
CanRead(v) == v.t \notin {"undefined", "null"}
ReadError(v, key) ==
  "Cannot read properties of " \o TemplateStr(v) \o " (reading '" \o key \o "')"

\* What a storage's content string can hold before and after one of its types.
Fragments == {"", "backup,", ",backup", "images,", ",vztmpl"}

\* { ...obj, key: v }: the entry is replaced in place, or added at the end.
Spread(obj, key, v) ==
  IF Has(obj, key)
  THEN Obj([i \in 1..Len(obj.entries) |->
              IF obj.entries[i][1] = key THEN <<key, v>> ELSE obj.entries[i]])
  ELSE Obj(Append(obj.entries, <<key, v>>))

(***************************************************************************)
(* Configuration read once at module load (index.ts lines 11-24).          *)
(***************************************************************************)
PROXMOX_HOST == env.PROXMOX_HOST
PROXMOX_USER == env.PROXMOX_USER
PROXMOX_PASSWORD == env.PROXMOX_PASSWORD
\* process.env.PROXMOX_PORT || "8006"
PROXMOX_PORT == IF Truthy(env.PROXMOX_PORT) THEN env.PROXMOX_PORT ELSE Str("8006")
\* Verification switched off by anything that looks like a negative value.
VerifySslUnlessNegative ==
  env.PROXMOX_VERIFY_SSL \notin {Str("false"), Str("FALSE"), Str("0")}

\* process.env.PROXMOX_VERIFY_SSL !== "false"
PROXMOX_VERIFY_SSL == env.PROXMOX_VERIFY_SSL # Str("false")
API_BASE ==
  "https://" \o TemplateStr(PROXMOX_HOST) \o ":" \o TemplateStr(PROXMOX_PORT) \o "/api2/json"

\* !PROXMOX_HOST alone: only the host is required.
ConfigMissingHostOnly == ~Truthy(PROXMOX_HOST)

\* !PROXMOX_HOST || !PROXMOX_USER || !PROXMOX_PASSWORD (line 17)
ConfigMissing ==
  ~Truthy(PROXMOX_HOST) \/ ~Truthy(PROXMOX_USER) \/ ~Truthy(PROXMOX_PASSWORD)

\* The error thrown at module load (lines 18-20).
ConfigError ==
  "PROXMOX_HOST, PROXMOX_USER, and PROXMOX_PASSWORD environment variables are required"

\* httpsAgent: undefined keeps Node's default (certificates are verified);
\* otherwise new Agent({ rejectUnauthorized: false }).
RejectUnauthorized == IF PROXMOX_VERIFY_SSL THEN TRUE ELSE FALSE

(***************************************************************************)
(* Outcomes of an async function.                                          *)
(***************************************************************************)
Pending == [kind |-> "pending"]
Resolved(v) == [kind |-> "return", value |-> v]
\* `line` is the line of index.ts whose `throw` produced the error.
Rejected(line, msg) == [kind |-> "throw", line |-> line, message |-> msg]

\* `name.filter(item => <item.prop is one of kept>)` evaluated at `line`: a
\* TypeError when name is undefined or null, when it has no filter method,
\* or when an item is undefined or null; otherwise the array of the items kept.
FilterBy(v, name, prop, kept, line) ==
  IF ~CanRead(v) THEN Rejected(line, ReadError(v, "filter"))
  ELSE IF v.t # "array" THEN Rejected(line, name \o ".filter is not a function")
  ELSE IF \E i \in 1..Len(v.items) : ~CanRead(v.items[i])
       THEN LET i == CHOOSE j \in 1..Len(v.items) :
                       /\ ~CanRead(v.items[j])
                       /\ \A k \in 1..(j - 1) : CanRead(v.items[k])
            IN Rejected(line, ReadError(v.items[i], prop))
       ELSE Resolved(Arr(SelectSeq(v.items, LAMBDA item : Get(item, prop) \in kept)))

(***************************************************************************)
(* Answers of the network.                                                 *)
(***************************************************************************)
HttpResponse(status, body) == [kind |-> "response", status |-> status, body |-> body]
\* axios rejects: the transport's message, and the body of a partial
\* response when one was captured (error.response?.data).
TransportFailure(msg, partial) == [kind |-> "failure", message |-> msg, partial |-> partial]

\* error instanceof Error ? error.message : String(error)
ErrorMessage(failure) == failure.message

(***************************************************************************)
(* getTicket (index.ts lines 215-238).                                     *)
(***************************************************************************)
\* The POST of a getTicket that forgets the password once it has been used:
\* only the first POST of the process carries it.
TicketPostForgetful ==
  [method |-> "post",
   url |-> API_BASE \o "/access/ticket",
   data |-> Obj(<< <<"username", PROXMOX_USER>>,
                   <<"password", IF wire.ticketPosts = 0 THEN PROXMOX_PASSWORD
                                 ELSE Undefined>> >>),
   rejectUnauthorized |-> RejectUnauthorized]

\* The axios.post of getTicket (lines 217-227): the credentials of the
\* configuration, with the configured certificate verification.
TicketPost ==
  [method |-> "post",
   url |-> API_BASE \o "/access/ticket",
   data |-> Obj(<< <<"username", PROXMOX_USER>>, <<"password", PROXMOX_PASSWORD>> >>),
   rejectUnauthorized |-> RejectUnauthorized]

\* getTicket without the check of response.data?.data: whatever the body
\* holds is returned as the ticket.
GetTicketUnchecked(resp) ==
  IF resp.kind = "failure"
  THEN Rejected(236, "Authentication failed: " \o ErrorMessage(resp))
  ELSE Resolved(Get(resp.body, "data"))

\* getTicket with the catch block turned around: only the missing ticket is
\* wrapped as an authentication failure, a transport failure is rethrown as
\* an API error.
GetTicketRethrow(resp) ==
  IF resp.kind = "failure"
  THEN Rejected(275, "Proxmox API error: " \o ErrorMessage(resp))
  ELSE IF Truthy(Get(resp.body, "data"))
       THEN Resolved(Get(resp.body, "data"))
       ELSE Rejected(236, "Authentication failed: "
                          \o "Failed to get authentication ticket")

\* getTicket with axios' default validateStatus: a status outside 2xx makes
\* the POST throw, whatever the body holds.
GetTicketStatusChecked(resp) ==
  IF resp.kind = "failure"
  THEN Rejected(236, "Authentication failed: " \o ErrorMessage(resp))
  ELSE IF resp.status >= 300
       THEN Rejected(236, "Authentication failed: Request failed with status code "
                          \o ToString(resp.status))
       ELSE IF Truthy(Get(resp.body, "data"))
            THEN Resolved(Get(resp.body, "data"))
            ELSE Rejected(236, "Authentication failed: "
                               \o "Failed to get authentication ticket")

\* What getTicket does with the answer to its POST.
GetTicketOutcome(resp) ==
  IF resp.kind = "failure"
  THEN Rejected(236, "Authentication failed: " \o ErrorMessage(resp))
  ELSE IF Truthy(Get(resp.body, "data"))
       THEN Resolved(Get(resp.body, "data"))
       ELSE Rejected(236, "Authentication failed: "
                          \o "Failed to get authentication ticket")

(***************************************************************************)
(* makeRequest (index.ts lines 241-293).                                   *)
(***************************************************************************)
\* The headers with the CSRF token left out.
RequestHeadersNoCsrf(ticket) ==
  [Cookie |-> "PVEAuthCookie=" \o TemplateStr(Get(ticket, "ticket")),
   CSRFPreventionToken |-> Undefined]

\* The headers of `config`, built from the ticket getTicket returned.
RequestHeaders(ticket) ==
  [Cookie |-> "PVEAuthCookie=" \o TemplateStr(Get(ticket, "ticket")),
   CSRFPreventionToken |-> Get(ticket, "CSRFPreventionToken")]

\* The axios.request call with the payload always sent as the body.
ApiRequestBodyOnly(method, endpoint, data, ticket) ==
  [method |-> method,
   url |-> API_BASE \o endpoint,
   params |-> Undefined,
   data |-> data,
   headers |-> RequestHeaders(ticket),
   rejectUnauthorized |-> RejectUnauthorized]

\* The axios.request call: DELETE sends `data` as params, everything else as body.
ApiRequest(method, endpoint, data, ticket) ==
  [method |-> method,
   url |-> API_BASE \o endpoint,
   params |-> IF method = "delete" THEN data ELSE Undefined,
   data |-> IF method = "delete" THEN Undefined ELSE data,
   headers |-> RequestHeaders(ticket),
   rejectUnauthorized |-> RejectUnauthorized]

\* The catch block with the captured body ignored: the transport's message
\* is reported whatever the partial response holds.
TransportErrorMessageOnly(failure) ==
  Rejected(275, "Proxmox API error: " \o failure.message)

\* The catch block around axios.request (lines 268-276).
TransportError(failure) ==
  LET errors == Get(failure.partial, "errors")
  IN Rejected(275, "Proxmox API error: "
                   \o (IF Truthy(errors) THEN FormatErrors(errors)
                       ELSE failure.message))

\* ResolveResponse with a body without `data` treated as a failure whatever
\* the status.
ResolveRequireData(resp) ==
  LET data == Get(resp.body, "data")
      errors == Get(resp.body, "errors")
  IN IF data.t # "undefined"
     THEN Resolved(data)
     ELSE Rejected(288, IF Truthy(errors) THEN FormatErrors(errors)
                        ELSE "Request failed with status " \o ToString(resp.status))

\* ResolveResponse returning response.data instead of response.data.data.
ResolveWholeBody(resp) ==
  LET data == Get(resp.body, "data")
      errors == Get(resp.body, "errors")
  IN IF data.t # "undefined"
     THEN Resolved(resp.body)
     ELSE IF resp.status >= 400 \/ Truthy(errors)
          THEN Rejected(288, IF Truthy(errors) THEN FormatErrors(errors)
                             ELSE "Request failed with status "
                                  \o ToString(resp.status))
          ELSE Resolved(Undefined)

\* Lines 278-292: what makeRequest does with a received response.
ResolveResponse(resp) ==
  LET data == Get(resp.body, "data")
      errors == Get(resp.body, "errors")
  IN IF data.t # "undefined"
     THEN Resolved(data)
     ELSE IF resp.status >= 400 \/ Truthy(errors)
          THEN Rejected(288, IF Truthy(errors) THEN FormatErrors(errors)
                             ELSE "Request failed with status "
                                  \o ToString(resp.status))
          ELSE Resolved(Undefined)

\* The outcome of makeRequest once the answer to its API request is known.
MakeRequestOutcome(resp) ==
  IF resp.kind = "failure" THEN TransportError(resp) ELSE ResolveResponse(resp)

(***************************************************************************)
(* Tool handlers (get_node_status 306-329, stop_vm 1032-1058,              *)
(* delete_vm 740-763, upgrade_proxmox 923-948, get_running_vms 1291-1326,  *)
(* get_ha_status 2246-2270, list_vm_snapshots 2467-2489,                   *)
(* list_isos 2896-2950).                                                   *)
(***************************************************************************)
NoArgs ==
  [node |-> Undefined, vmid |-> Undefined, force |-> Undefined, timeout |-> Undefined,
   storage |-> Undefined, dist_upgrade |-> Undefined]

\* The tool invocations a client makes in this model.
ToolCalls ==
  { [tool |-> "get_node_status", args |-> NoArgs],
    [tool |-> "stop_vm",
     args |-> [NoArgs EXCEPT !.node = Str("pve"), !.vmid = Num(100)]],
    [tool |-> "delete_vm",
     args |-> [NoArgs EXCEPT !.node = Str("pve"), !.vmid = Num(100), !.force = Bool(TRUE)]] }

\* Invocations of the tools that read or list, that start a task, and that
\* make more than one makeRequest call.
MoreToolCalls ==
  { [tool |-> "list_vm_snapshots",
     args |-> [NoArgs EXCEPT !.node = Str("pve"), !.vmid = Num(100)]],
    [tool |-> "upgrade_proxmox",
     args |-> [NoArgs EXCEPT !.node = Str("pve"), !.dist_upgrade = Bool(TRUE)]],
    [tool |-> "get_running_vms", args |-> [NoArgs EXCEPT !.node = Str("pve")]],
    [tool |-> "get_ha_status", args |-> [NoArgs EXCEPT !.node = Str("pve")]],
    [tool |-> "list_isos",
     args |-> [NoArgs EXCEPT !.node = Str("pve"), !.storage = Str("local")]],
    [tool |-> "list_isos", args |-> [NoArgs EXCEPT !.node = Str("pve")]] }

AllToolCalls == ToolCalls \cup MoreToolCalls

\* The arguments of download_iso (2959-2962) and of get_task_status (957-958).
DownloadIsoArgs ==
  [node |-> Str("pve"), storage |-> Str("local"),
   filename |-> Str("debian-12.iso"), url |-> Str("https://cdimage.example/debian-12.iso")]
TaskStatusArgs == [node |-> Str("pve"), taskid |-> Str("UPID:pve:0001")]

(***************************************************************************)
(* Payload construction (create_vm 575-628, create_container 687-699,      *)
(* create_vm_backup 1811-1821, migrate_vm 2292-2298).                      *)
(***************************************************************************)
\* params[key] = v, when cond holds.
Assign(params, cond, key, v) == IF cond THEN Spread(params, key, v) ELSE params

\* The flag forwarded as the boolean itself.
FlagNative(v) == v

\* v ? "1" : "0"
Flag(v) == Str(IF Truthy(v) THEN "1" ELSE "0")

\* The statements that fill `params`, one rule per statement:
\*   TruthyAs(a, k)  if (a) params.k = a;
\*   FlagOf(a)       if (a !== undefined) params.a = a ? "1" : "0";
\*   CloudInit(a, k) if (a) params.k = a;  inside  if (cloudinit !== false) { }
\*   NoCloudInit     params.cloudinit = "0";  in the else of that if
\*   GuestAgent      if (installGuestAgent !== false) params.agent = "enabled=1";
\*   Disk            the block  if (disk) { ... }  of create_vm
TruthyAs(a, k) == [kind |-> "truthy", arg |-> a, key |-> k]
FlagOf(a) == [kind |-> "flag", arg |-> a, key |-> a]
CloudInit(a, k) == [kind |-> "cloudinit", arg |-> a, key |-> k]
NoCloudInit == [kind |-> "nocloudinit", arg |-> "cloudinit", key |-> "cloudinit"]
GuestAgent == [kind |-> "agent", arg |-> "installGuestAgent", key |-> "agent"]
Disk == [kind |-> "disk", arg |-> "disk", key |-> "scsi0"]

\* The strings a `disk` argument is matched against.
DiskDevices == {"scsi", "virtio", "sata", "ide"}
DiskIndexes == {"0", "1", "2", "10"}
DiskSeparators == {":", ": ", " : "}
DiskValues == {"local-lvm:20", "HDDVOL1:20,format=raw"}

\* A match that never succeeds: every disk string is taken as it stands.
DiskMatchNone(disk) == Null

\* disk.match(/^(scsi|virtio|sata|ide)(\d+)\s*:\s*(.+)$/) (line 586): the groups of the
\* match, or null.
DiskMatch(disk) ==
  LET groups == {g \in DiskDevices \X DiskIndexes \X DiskSeparators \X DiskValues :
                   disk = g[1] \o g[2] \o g[3] \o g[4]}
  IN IF groups = {} THEN Null
     ELSE LET g == CHOOSE m \in groups : TRUE
          IN Arr(<< Str(disk), Str(g[1]), Str(g[2]), Str(g[4]) >>)

\* The arguments of create_vm (its inputSchema, lines 530-571).
CreateVmKeys ==
  {"node", "vmid", "name", "cores", "sockets", "memory", "net0", "net1", "net2", "net3",
   "disk", "ide0", "ide1", "ide2", "ide3", "sata0", "sata1", "scsi0", "scsi1", "scsi2",
   "scsi3", "scsihw", "bootdisk", "boot", "ostype", "onboot", "desc", "cloudinit",
   "nameserver", "searchdomain", "ipconfig", "sshkeys", "user", "password",
   "installGuestAgent"}

\* create_vm with only the required arguments.
CreateVmArgs ==
  [[k \in CreateVmKeys |-> Undefined]
     EXCEPT !.node = Str("pve"), !.vmid = Num(100), !.memory = Num(2048)]

\* if (disk) { ... } (lines 584-594): the key named by the disk string, or
\* scsi0, is set unless params already holds a truthy value for it.
AssignDisk(params, disk) ==
  LET diskMatch == DiskMatch(disk.s)
      paramKey == IF Truthy(diskMatch)
                  THEN diskMatch.items[2].s \o diskMatch.items[3].s
                  ELSE "scsi0"
  IN Assign(params, ~Truthy(Get(params, paramKey)), paramKey,
            IF Truthy(diskMatch) THEN diskMatch.items[4] ELSE disk)

\* One statement of a handler's payload construction.
ApplyRule(params, args, rule) ==
  LET a == args[rule.arg]
  IN CASE rule.kind = "truthy" -> Assign(params, Truthy(a), rule.key, a)
       [] rule.kind = "flag" -> Assign(params, a # Undefined, rule.key, Flag(a))
       [] rule.kind = "cloudinit" ->
            Assign(params, args.cloudinit # Bool(FALSE) /\ Truthy(a), rule.key, a)
       [] rule.kind = "nocloudinit" ->
            Assign(params, a = Bool(FALSE), rule.key, Str("0"))
       [] rule.kind = "agent" ->
            Assign(params, a # Bool(FALSE), rule.key, Str("enabled=1"))
       [] rule.kind = "disk" -> IF Truthy(a) THEN AssignDisk(params, a) ELSE params

RECURSIVE BuildParams(_, _, _)
\* The statements `rules` run in order on `params`.
BuildParams(params, args, rules) ==
  IF rules = <<>> THEN params
  ELSE BuildParams(ApplyRule(params, args, Head(rules)), args, Tail(rules))

\* if (a) params.a = a; for each argument of `keys` in turn.
Truthies(keys) == [i \in 1..Len(keys) |-> TruthyAs(keys[i], keys[i])]

\* if (a !== undefined) params.a = a ? "1" : "0"; for each argument of `keys`.
Flags(keys) == [i \in 1..Len(keys) |-> FlagOf(keys[i])]

\* Lines 575-628 of create_vm: the payload built from the arguments.
CreateVmParams(args) ==
  BuildParams(
    Obj(<< <<"vmid", args.vmid>>, <<"memory", args.memory>> >>), args,
    Truthies(<<"name", "cores", "sockets", "net0", "net1", "net2", "net3">>)
    \o << Disk >>
    \o Truthies(<<"ide0", "ide1", "ide2", "ide3", "sata0", "sata1",
                  "scsi0", "scsi1", "scsi2", "scsi3",
                  "scsihw", "bootdisk", "boot", "ostype">>)
    \o Flags(<<"onboot">>)
    \o Truthies(<<"desc">>)
    \o << CloudInit("nameserver", "nameserver"), CloudInit("searchdomain", "searchdomain"),
          CloudInit("ipconfig", "ipconfig0"), CloudInit("sshkeys", "sshkeys"),
          CloudInit("user", "user"), CloudInit("password", "password"),
          NoCloudInit, GuestAgent >>)

\* The arguments of create_container (its inputSchema, lines 668-684).
CreateContainerKeys ==
  {"node", "vmid", "hostname", "ostemplate", "cores", "memory", "swap", "net0",
   "ipaddr", "gateway", "password", "nameserver", "ssh_public_keys", "unprivileged",
   "description"}

\* create_container with only the required arguments.
CreateContainerArgs ==
  [[k \in CreateContainerKeys |-> Undefined]
     EXCEPT !.node = Str("pve"), !.vmid = Num(200), !.hostname = Str("ct200"),
            !.ostemplate = Str("local:vztmpl/debian-12.tar.zst"), !.memory = Num(512)]

\* Lines 688-699 of create_container.
CreateContainerParams(args) ==
  BuildParams(
    Obj(<< <<"vmid", args.vmid>>, <<"hostname", args.hostname>>,
           <<"ostemplate", args.ostemplate>>, <<"memory", args.memory>> >>), args,
    Truthies(<<"cores", "swap", "net0", "ipaddr", "gateway",
               "password", "nameserver", "ssh_public_keys">>)
    \o Flags(<<"unprivileged">>)
    \o Truthies(<<"description">>))

\* The arguments of create_vm_backup (lines 1796-1808).
BackupKeys ==
  {"node", "vmid", "storage", "mode", "compression", "dumpdir", "exclude", "backupdir",
   "stdout", "pause", "prune", "backupId"}

BackupArgs ==
  [[k \in BackupKeys |-> Undefined]
     EXCEPT !.node = Str("pve"), !.vmid = Num(100), !.storage = Str("local")]

\* Lines 1812-1821 of create_vm_backup.
BackupParams(args) ==
  BuildParams(
    Obj(<< <<"vmid", args.vmid>>, <<"storage", args.storage>> >>), args,
    Truthies(<<"mode", "compression", "dumpdir", "exclude", "backupdir">>)
    \o Flags(<<"stdout", "pause", "prune">>)
    \o Truthies(<<"backupId">>))

\* The arguments of migrate_vm (lines 2281-2289).
MigrateKeys ==
  {"node", "vmid", "target", "online", "force", "stop", "stateonly", "with_local_disks"}

MigrateArgs ==
  [[k \in MigrateKeys |-> Undefined]
     EXCEPT !.node = Str("pve"), !.vmid = Num(100), !.target = Str("pve2")]

\* Lines 2293-2298 of migrate_vm.
MigrateParams(args) ==
  BuildParams(Obj(<< <<"target", args.target>>, <<"vmid", args.vmid>> >>), args,
              Flags(<<"online", "force", "stop", "stateonly", "with_local_disks">>))

\* Invocations of the tools that build a payload from optional arguments
\* and of the tools that start a task: every optional argument left out,
\* supplied with a truthy value, and supplied with a falsy one.
PayloadToolCalls ==
  { [tool |-> "stop_vm",
     args |-> [NoArgs EXCEPT !.node = Str("pve"), !.vmid = Num(100), !.timeout = t]] :
       t \in {Undefined, Num(0), Num(30)} }
  \cup
  { [tool |-> "delete_vm",
     args |-> [NoArgs EXCEPT !.node = Str("pve"), !.vmid = Num(100), !.force = f]] :
       f \in {Undefined, Bool(FALSE), Bool(TRUE)} }
  \cup
  { [tool |-> "create_container",
     args |-> [CreateContainerArgs EXCEPT !.swap = s, !.unprivileged = u]] :
       s \in {Undefined, Num(0), Num(512)}, u \in {Undefined, Bool(FALSE), Bool(TRUE)} }
  \cup
  { [tool |-> "create_vm",
     args |-> [CreateVmArgs EXCEPT !.onboot = o, !.cloudinit = c, !.installGuestAgent = c]] :
       o \in {Undefined, Bool(FALSE), Bool(TRUE)}, c \in {Undefined, Bool(FALSE)} }
  \cup
  { [tool |-> "create_vm",
     args |-> [CreateVmArgs EXCEPT !.disk = Str(d), !.scsi0 = s, !.ide2 = i]] :
       d \in {"virtio0: local-lvm:20", "scsi0:HDDVOL1:20,format=raw",
              "ide2 : local-lvm:20", "sata10: local-lvm:20",
              "local-lvm:20", "nvme0: local-lvm:20"},
       s \in {Undefined, Str("local-lvm:32")},
       i \in {Undefined, Str("local:iso/debian-12.iso,media=cdrom")} }
  \cup
  { [tool |-> "create_vm_backup",
     args |-> [BackupArgs EXCEPT !.mode = m, !.stdout = b, !.prune = b]] :
       m \in {Undefined, Str("snapshot")}, b \in {Undefined, Bool(FALSE), Bool(TRUE)} }
  \cup
  { [tool |-> "migrate_vm",
     args |-> [MigrateArgs EXCEPT !.online = o, !.force = f]] :
       o \in {Undefined, Bool(TRUE)}, f \in {Undefined, Bool(FALSE)} }
  \cup
  { [tool |-> "upgrade_proxmox",
     args |-> [NoArgs EXCEPT !.node = Str("pve"), !.dist_upgrade = Bool(FALSE)]],
    [tool |-> "download_iso", args |-> DownloadIsoArgs],
    [tool |-> "get_task_status", args |-> TaskStatusArgs] }

\* The first makeRequest call a handler makes: method, endpoint, payload.

\* The first makeRequest call a handler makes: method, endpoint, payload.
HandlerCall(tool, args) ==
  CASE tool = "get_node_status" ->
         [method |-> "get",
          endpoint |-> IF Truthy(args.node)
                         THEN "/nodes/" \o TemplateStr(args.node) \o "/status"
                         ELSE "/nodes",
          data |-> Undefined]
    [] tool = "stop_vm" ->
         [method |-> "post",
          endpoint |-> "/nodes/" \o TemplateStr(args.node) \o "/qemu/"
                       \o TemplateStr(args.vmid) \o "/status/stop",
          data |-> Obj(IF Truthy(args.timeout)
                         THEN << <<"timeout", Str(TemplateStr(args.timeout))>> >>
                         ELSE <<>>)]
    [] tool = "delete_vm" ->
         [method |-> "delete",
          endpoint |-> "/nodes/" \o TemplateStr(args.node) \o "/qemu/"
                       \o TemplateStr(args.vmid),
          data |-> Obj(IF Truthy(args.force)
                         THEN << <<"force", Str("1")>> >>
                         ELSE <<>>)]
    [] tool = "list_vm_snapshots" ->
         [method |-> "get",
          endpoint |-> "/nodes/" \o TemplateStr(args.node) \o "/qemu/"
                       \o TemplateStr(args.vmid) \o "/snapshot",
          data |-> Undefined]
    [] tool = "upgrade_proxmox" ->
         [method |-> "post",
          endpoint |-> "/nodes/" \o TemplateStr(args.node) \o "/apt/upgrade",
          data |-> Obj(IF Truthy(args.dist_upgrade)
                         THEN << <<"dist_upgrade", Str("1")>> >>
                         ELSE <<>>)]
    [] tool = "get_running_vms" ->
         [method |-> "get",
          endpoint |-> "/nodes/" \o TemplateStr(args.node) \o "/qemu",
          data |-> Undefined]
    [] tool = "get_ha_status" ->
         [method |-> "get",
          endpoint |-> "/nodes/" \o TemplateStr(args.node) \o "/ha/resources",
          data |-> Undefined]
    [] tool = "list_isos" ->
         [method |-> "get",
          endpoint |-> IF Truthy(args.storage)
                         THEN "/nodes/" \o TemplateStr(args.node) \o "/storage/"
                              \o TemplateStr(args.storage) \o "/content"
                         ELSE "/nodes/" \o TemplateStr(args.node) \o "/storage",
          data |-> Undefined]
    [] tool = "create_vm" ->
         [method |-> "post",
          endpoint |-> "/nodes/" \o TemplateStr(args.node) \o "/qemu",
          data |-> CreateVmParams(args)]
    [] tool = "create_container" ->
         [method |-> "post",
          endpoint |-> "/nodes/" \o TemplateStr(args.node) \o "/lxc",
          data |-> CreateContainerParams(args)]
    [] tool = "create_vm_backup" ->
         [method |-> "post",
          endpoint |-> "/nodes/" \o TemplateStr(args.node) \o "/backup",
          data |-> BackupParams(args)]
    [] tool = "migrate_vm" ->
         [method |-> "post",
          endpoint |-> "/nodes/" \o TemplateStr(args.node) \o "/qemu/"
                       \o TemplateStr(args.vmid) \o "/migrate",
          data |-> MigrateParams(args)]
    [] tool = "download_iso" ->
         [method |-> "post",
          endpoint |-> "/nodes/" \o TemplateStr(args.node) \o "/storage/"
                       \o TemplateStr(args.storage) \o "/upload",
          data |-> Obj(<< <<"filename", args.filename>>, <<"url", args.url>> >>)]
    [] tool = "get_task_status" ->
         [method |-> "get",
          endpoint |-> "/nodes/" \o TemplateStr(args.node) \o "/tasks/"
                       \o TemplateStr(args.taskid),
          data |-> Undefined]

\* The text of the handler's success result.
SuccessText(tool, args, value) ==
  CASE tool = "get_node_status" -> JSONStringify(value)
    [] tool = "stop_vm" ->
         JSONStringify(Obj(<< <<"success", Bool(TRUE)>>,
                              <<"message", Str("VM " \o TemplateStr(args.vmid) \o " stopped")>> >>))
    [] tool = "delete_vm" ->
         JSONStringify(Obj(<< <<"success", Bool(TRUE)>>,
                              <<"message", Str("VM " \o TemplateStr(args.vmid)
                                               \o " deleted successfully")>> >>))
    [] tool = "list_vm_snapshots" -> JSONStringify(Get(value, "data"))
    [] tool \in {"upgrade_proxmox", "create_vm_backup", "migrate_vm", "download_iso"} ->
         JSONStringify(Obj(<< <<"success", Bool(TRUE)>>,
                              <<"taskid", Get(value, "taskid")>> >>))
    [] tool = "create_vm" ->
         JSONStringify(Obj(
           << <<"success", Bool(TRUE)>>,
              <<"vmid", args.vmid>>,
              <<"upid", value>>,
              <<"message", Str("VM " \o TemplateStr(args.vmid)
                               \o " created successfully on node " \o TemplateStr(args.node)
                               \o ". Note: VM is created in stopped state.")>>,
              <<"parameters", Num(Len(CreateVmParams(args).entries))>> >>))
    [] tool = "create_container" ->
         JSONStringify(Obj(<< <<"success", Bool(TRUE)>>,
                              <<"vmid", args.vmid>>,
                              <<"upid", value>> >>))
    [] tool = "get_task_status" -> JSONStringify(value)

\* The "Error <doing X>: " prefix of the handler's catch block.
ErrorPrefix(tool) ==
  CASE tool = "get_node_status" -> "Error getting node status: "
    [] tool = "stop_vm" -> "Error stopping VM: "
    [] tool = "delete_vm" -> "Error deleting VM: "
    [] tool = "list_vm_snapshots" -> "Error listing VM snapshots: "
    [] tool = "upgrade_proxmox" -> "Error upgrading Proxmox: "
    [] tool = "get_running_vms" -> "Error getting running VMs: "
    [] tool = "get_ha_status" -> "Error getting HA status: "
    [] tool = "list_isos" -> "Error listing ISOs: "
    [] tool = "create_vm" -> "Error creating VM: "
    [] tool = "create_container" -> "Error creating container: "
    [] tool = "create_vm_backup" -> "Error creating VM backup: "
    [] tool = "migrate_vm" -> "Error migrating VM: "
    [] tool = "download_iso" -> "Error downloading ISO: "
    [] tool = "get_task_status" -> "Error getting task status: "

\* The try block suspends on `await makeRequest(...)`.
Await(mr) == [kind |-> "call", call |-> mr]

\* The values kept by `status === "running"` and by `content === "iso"`.
IsRunning == {Str("running")}
IsIso == {Str("iso")}
\* The values kept by s.content && s.content.includes("iso"): the content
\* strings that hold "iso".
HoldsIsos == {Str(pre \o "iso" \o post) : pre \in Fragments, post \in Fragments}

\* The statements after the await with no check of the awaited value: the
\* success text is built from whatever makeRequest returned.
AfterAwaitUnchecked(tool, args, value) == Resolved(SuccessText(tool, args, value))

\* The statements after the await in a handler that awaits makeRequest once:
\* the text of the result, or the TypeError the statements throw.
AfterAwait(tool, args, value) ==
  CASE tool = "list_vm_snapshots" ->
         IF CanRead(value) THEN Resolved(SuccessText(tool, args, value))
         ELSE Rejected(2474, ReadError(value, "data"))
    [] tool = "upgrade_proxmox" ->
         IF CanRead(value) THEN Resolved(SuccessText(tool, args, value))
         ELSE Rejected(933, ReadError(value, "taskid"))
    [] tool = "list_isos" ->
         LET isos == FilterBy(value, "result", "content", IsIso, 2905)
         IN IF isos.kind = "throw" THEN isos ELSE Resolved(JSONStringify(isos.value))
    [] tool = "create_vm" ->
         IF ~Truthy(value)
         THEN Rejected(633, "VM creation failed: no response from Proxmox API")
         ELSE Resolved(SuccessText(tool, args, value))
    [] tool = "create_container" ->
         IF ~Truthy(value)
         THEN Rejected(704, "Container creation failed: no response from Proxmox API")
         ELSE Resolved(SuccessText(tool, args, value))
    [] tool = "create_vm_backup" ->
         IF CanRead(value) THEN Resolved(SuccessText(tool, args, value))
         ELSE Rejected(1828, ReadError(value, "taskid"))
    [] tool = "migrate_vm" ->
         IF CanRead(value) THEN Resolved(SuccessText(tool, args, value))
         ELSE Rejected(2305, ReadError(value, "taskid"))
    [] tool = "download_iso" ->
         IF CanRead(value) THEN Resolved(SuccessText(tool, args, value))
         ELSE Rejected(2976, ReadError(value, "taskid"))
    [] OTHER -> Resolved(SuccessText(tool, args, value))

\* get_running_vms without the two filters: every guest of the two
\* listings is reported.
GetRunningVmsUnfiltered(args, outs) ==
  IF outs = <<>> THEN Await(HandlerCall("get_running_vms", args))
  ELSE IF outs[1].kind = "throw" THEN outs[1]
  ELSE IF Len(outs) = 1
       THEN Await([method |-> "get",
                   endpoint |-> "/nodes/" \o TemplateStr(args.node) \o "/lxc",
                   data |-> Undefined])
  ELSE IF outs[2].kind = "throw" THEN outs[2]
  ELSE Resolved(JSONStringify(Obj(
         << <<"running_vms", outs[1].value>>,
            <<"running_containers", outs[2].value>>,
            <<"total_running", Num(Len(ObjectEntries(outs[1].value))
                                   + Len(ObjectEntries(outs[2].value)))>> >>)))

\* get_running_vms (1291-1315): two awaits one after the other, then the
\* two filters and the serialisation.
GetRunningVms(args, outs) ==
  IF outs = <<>> THEN Await(HandlerCall("get_running_vms", args))
  ELSE IF outs[1].kind = "throw" THEN outs[1]
  ELSE IF Len(outs) = 1
       THEN Await([method |-> "get",
                   endpoint |-> "/nodes/" \o TemplateStr(args.node) \o "/lxc",
                   data |-> Undefined])
  ELSE IF outs[2].kind = "throw" THEN outs[2]
  ELSE LET runningVms == FilterBy(outs[1].value, "vms", "status", IsRunning, 1296)
           runningContainers ==
             FilterBy(outs[2].value, "containers", "status", IsRunning, 1297)
       IN IF runningVms.kind = "throw" THEN runningVms
          ELSE IF runningContainers.kind = "throw" THEN runningContainers
          ELSE Resolved(JSONStringify(Obj(
                 << <<"running_vms", runningVms.value>>,
                    <<"running_containers", runningContainers.value>>,
                    <<"total_running", Num(Len(runningVms.value.items)
                                           + Len(runningContainers.value.items))>> >>)))

\* get_ha_status (2246-2257): two awaits one after the other, then the
\* serialisation of both values.
GetHaStatus(args, outs) ==
  IF outs = <<>> THEN Await(HandlerCall("get_ha_status", args))
  ELSE IF outs[1].kind = "throw" THEN outs[1]
  ELSE IF Len(outs) = 1
       THEN Await([method |-> "get",
                   endpoint |-> "/nodes/" \o TemplateStr(args.node) \o "/ha/groups",
                   data |-> Undefined])
  ELSE IF outs[2].kind = "throw" THEN outs[2]
  ELSE Resolved(JSONStringify(Obj(<< <<"resources", outs[1].value>>,
                                     <<"groups", outs[2].value>> >>)))

\* StorageIsos without the tag: the ISOs of the storage as the remote sent
\* them.
StorageIsosUntagged(storageItem, out) ==
  IF out.kind = "throw" THEN <<>>
  ELSE LET storageIsos == FilterBy(out.value, "content", "content", IsIso, 2919)
       IN IF storageIsos.kind = "throw" THEN <<>> ELSE storageIsos.value.items

\* The body of list_isos' inner try for one storage (2917-2927): the ISOs of
\* the storage, or nothing when the request or the filter threw.
StorageIsos(storageItem, out) ==
  IF out.kind = "throw" THEN <<>>
  ELSE LET storageIsos == FilterBy(out.value, "content", "content", IsIso, 2919)
       IN IF storageIsos.kind = "throw" THEN <<>>
          ELSE [i \in 1..Len(storageIsos.value.items) |->
                  Spread(storageIsos.value.items[i], "storage",
                         Get(storageItem, "storage"))]

RECURSIVE PushAll(_, _)
\* isos.push(...) over the storages in order.
PushAll(storages, outs) ==
  IF storages = <<>> THEN <<>>
  ELSE StorageIsos(Head(storages), Head(outs)) \o PushAll(Tail(storages), Tail(outs))

\* list_isos without a storage (2908-2930): the storages are listed, then
\* the content of each storage that holds ISOs is requested in turn.
ListIsosOfNode(args, outs) ==
  IF outs = <<>> THEN Await(HandlerCall("list_isos", args))
  ELSE IF outs[1].kind = "throw" THEN outs[1]
  ELSE LET isoStorages == FilterBy(outs[1].value, "storages", "content", HoldsIsos, 2911)
       IN IF isoStorages.kind = "throw" THEN isoStorages
          ELSE IF Len(outs) - 1 < Len(isoStorages.value.items)
          THEN LET storageItem == isoStorages.value.items[Len(outs)]
               IN Await([method |-> "get",
                         endpoint |-> "/nodes/" \o TemplateStr(args.node) \o "/storage/"
                                      \o TemplateStr(Get(storageItem, "storage"))
                                      \o "/content",
                         data |-> Undefined])
          ELSE Resolved(JSONStringify(Arr(PushAll(isoStorages.value.items, Tail(outs)))))

\* The try block of a handler that waits for the task it started: after the
\* initiating request it requests the task's status before it returns.
TryBlockPolling(tool, args, outs) ==
  IF outs = <<>> THEN Await(HandlerCall(tool, args))
  ELSE IF outs[Len(outs)].kind = "throw" THEN outs[Len(outs)]
  ELSE IF Len(outs) = 1
       THEN Await([method |-> "get",
                   endpoint |-> "/nodes/" \o TemplateStr(args.node) \o "/tasks/"
                                \o TemplateStr(Get(outs[1].value, "taskid")),
                   data |-> Undefined])
  ELSE AfterAwait(tool, args, outs[1].value)

\* The handler's try block, run as far as the outcomes `outs` of the
\* makeRequest calls it has awaited so far allow: the next call it awaits,
\* the text it returns, or the error it throws.
TryBlock(tool, args, outs) ==
  CASE tool = "get_running_vms" -> GetRunningVms(args, outs)
    [] tool = "get_ha_status" -> GetHaStatus(args, outs)
    [] tool = "list_isos" /\ ~Truthy(args.storage) -> ListIsosOfNode(args, outs)
    [] OTHER ->
         IF outs = <<>> THEN Await(HandlerCall(tool, args))
         ELSE IF outs[1].kind = "throw" THEN outs[1]
         ELSE AfterAwait(tool, args, outs[1].value)

NoResult == [kind |-> "none"]

\* A handler without the catch block: an error of the try block leaves the
\* handler as an exception.
HandlerResultUncaught(tool, args, outcome) ==
  IF outcome.kind = "throw"
  THEN [kind |-> "exception", isError |-> TRUE, text |-> Str(outcome.message)]
  ELSE [kind |-> "result", isError |-> FALSE, text |-> outcome.value]

\* The catch block returning its text without the isError flag.
HandlerResultUnflagged(tool, args, outcome) ==
  IF outcome.kind = "throw"
  THEN [kind |-> "result", isError |-> FALSE,
        text |-> Str(ErrorPrefix(tool) \o outcome.message)]
  ELSE [kind |-> "result", isError |-> FALSE, text |-> outcome.value]

\* try { ...; return {content} } catch (error) { return {content, isError} }
\* applied to the outcome of the try block.
HandlerResult(tool, args, outcome) ==
  IF outcome.kind = "throw"
  THEN [kind |-> "result", isError |-> TRUE,
        text |-> Str(ErrorPrefix(tool) \o outcome.message)]
  ELSE [kind |-> "result", isError |-> FALSE, text |-> outcome.value]

(***************************************************************************)
(* The remote control plane and the transport.                             *)
(***************************************************************************)
\* The n-th ticket the control plane issues.
TicketData(n) ==
  Obj(<< <<"ticket", Str("PVE:root@pam:" \o ToString(n))>>,
         <<"CSRFPreventionToken", Str("CSRF:" \o ToString(n))>> >>)

TicketStatuses == {200, 401}

\* Bodies of the answer to POST /access/ticket: none, {}, {data: null}, {data: ticket}.
TicketBodies(n) ==
  { Undefined, Obj(<<>>), Obj(<< <<"data", Null>> >>), Obj(<< <<"data", TicketData(n)>> >>) }

ApiStatuses == {200, 400, 500}

\* Values of the `data` field of an API answer (Undefined: the field is absent).
ApiData ==
  { Undefined, Null, Str("UPID:pve:0001"), Num(100), Num(0),
    Obj(<< <<"node", Str("pve")>> >>), Arr(<< Str("local") >>) }

\* Values of the `errors` field (Undefined: absent): mappings and lists.
ApiErrors ==
  { Undefined,
    Obj(<<>>),
    Obj(<< <<"vmid", Str("already exists")>> >>),
    Obj(<< <<"vmid", Str("already exists")>>, <<"net0", Str("invalid format")>> >>),
    Arr(<< Str("storage not found") >>),
    Arr(<< Str("storage not found"), Str("permission denied") >>) }

\* A parsed JSON body with the given data and errors fields.
Body(data, errors) ==
  Obj((IF data.t = "undefined" THEN <<>> ELSE << <<"data", data>> >>)
      \o (IF errors.t = "undefined" THEN <<>> ELSE << <<"errors", errors>> >>))

ApiBodies == {Undefined} \cup {Body(d, e) : d \in ApiData, e \in ApiErrors}

\* Transport failures: the certificate is rejected exactly when the request
\* verifies certificates and the server's certificate is self-signed; any
\* request can fail to connect.
CertFailure == TransportFailure("self signed certificate", Undefined)
ConnectFailures ==
  { TransportFailure("connect ECONNREFUSED", Undefined),
    TransportFailure("Request aborted",
                     Obj(<< <<"errors", Obj(<< <<"vmid", Str("already exists")>> >>)>> >>)) }

\* The answers the network can give to a request, out of the given responses.
Answers(req, responses) ==
  IF req.rejectUnauthorized /\ remote.selfSigned
  THEN {CertFailure}
  ELSE ConnectFailures \cup responses

\* Every answer to the ticket POST when n tickets have been issued.
TicketAnswers(n) == {HttpResponse(s, b) : s \in TicketStatuses, b \in TicketBodies(n + 1)}

\* Every answer to an API request.
ApiAnswers == {HttpResponse(s, b) : s \in ApiStatuses, b \in ApiBodies}

\* The answers used when call chains run concurrently: a success with a
\* payload, a success without content, a rejected parameter, a server error.
CoreApiAnswers ==
  { HttpResponse(200, Body(Obj(<< <<"node", Str("pve")>> >>), Undefined)),
    HttpResponse(200, Body(Undefined, Undefined)),
    HttpResponse(400, Body(Undefined, Obj(<< <<"vmid", Str("already exists")>> >>))),
    HttpResponse(500, Body(Null, Undefined)) }

\* The answers used to exercise the handlers: a list of guests, a list of
\* storages of which two hold ISOs, the content of a storage, a task id, an
\* object, a success without content and a rejected parameter.
ToolApiAnswers ==
  { HttpResponse(200, Body(Arr(<< Obj(<< <<"vmid", Num(100)>>, <<"status", Str("running")>> >>),
                                  Obj(<< <<"vmid", Num(101)>>, <<"status", Str("stopped")>> >>),
                                  Obj(<< <<"vmid", Num(102)>>, <<"status", Str("running")>> >>) >>),
                           Undefined)),
    HttpResponse(200, Body(Arr(<< Obj(<< <<"storage", Str("local")>>,
                                         <<"content", Str("iso,backup")>> >>),
                                  Obj(<< <<"storage", Str("local-lvm")>>,
                                         <<"content", Str("images")>> >>),
                                  Obj(<< <<"storage", Str("nfs")>>,
                                         <<"content", Str("images,iso")>> >>) >>),
                           Undefined)),
    HttpResponse(200, Body(Arr(<< Obj(<< <<"volid", Str("iso/debian.iso")>>,
                                         <<"content", Str("iso")>> >>),
                                  Obj(<< <<"volid", Str("backup/vm-100.vma")>>,
                                         <<"content", Str("backup")>> >>) >>),
                           Undefined)),
    HttpResponse(200, Body(Str("UPID:pve:0001"), Undefined)),
    HttpResponse(200, Body(Obj(<< <<"node", Str("pve")>> >>), Undefined)),
    HttpResponse(200, Body(Undefined, Undefined)),
    HttpResponse(400, Body(Undefined, Obj(<< <<"vmid", Str("already exists")>> >>))) }

\* The answers used to exercise the payload-building and task-starting
\* tools: a task id as a bare string, a task id in an object, a success
\* without content and a rejected parameter.
PayloadApiAnswers ==
  { HttpResponse(200, Body(Str("UPID:pve:0001"), Undefined)),
    HttpResponse(200, Body(Obj(<< <<"taskid", Str("UPID:pve:0001")>> >>), Undefined)),
    HttpResponse(200, Body(Undefined, Undefined)),
    HttpResponse(400, Body(Undefined, Obj(<< <<"vmid", Str("already exists")>> >>))) }

(***************************************************************************)
(* A call chain: one tool invocation, from the handler's entry to its      *)
(* return, with the locals of the makeRequest call it is awaiting.         *)
(***************************************************************************)
\* pc: "idle" (no invocation), "ticket" (awaiting the answer to the ticket
\* POST), "request" (awaiting the answer to the API request), "returned".
\* posts/reqs: the requests the current makeRequest call has put on the wire.
\* granted: number of the ticket the control plane issued to that call.
\* issuedBefore: how many tickets had been issued when that call began.
\* outcome: the outcome of the makeRequest call awaited last.
\* outs: the outcomes of all the makeRequest calls the handler has awaited.
\* calls: how many makeRequest calls the handler has made.
\* sent: how many requests the invocation has put on the wire in all.
IdleChain ==
  [pc |-> "idle", tool |-> "", args |-> NoArgs,
   method |-> "", endpoint |-> "", data |-> Undefined,
   ticket |-> Undefined, posts |-> <<>>, reqs |-> <<>>,
   outcome |-> Pending, result |-> NoResult,
   granted |-> 0, issuedBefore |-> 0,
   outs |-> <<>>, calls |-> 0, sent |-> [posts |-> 0, reqs |-> 0]]

\* makeRequest with a ticket kept for the whole invocation: only the first
\* call of a handler acquires a ticket, the later ones send their request
\* with it at once.
BeginRequestKeepTicket(ch, mr) ==
  IF ch.calls = 0
  THEN [ch EXCEPT !.pc = "ticket", !.method = mr.method, !.endpoint = mr.endpoint,
                  !.data = mr.data, !.ticket = Undefined,
                  !.posts = <<TicketPost>>, !.reqs = <<>>,
                  !.granted = 0, !.issuedBefore = remote.issued, !.calls = @ + 1]
  ELSE [ch EXCEPT !.pc = "request", !.method = mr.method, !.endpoint = mr.endpoint,
                  !.data = mr.data, !.posts = <<>>,
                  !.reqs = <<ApiRequest(mr.method, mr.endpoint, mr.data, ch.ticket)>>,
                  !.calls = @ + 1]

\* makeRequest is called: it awaits getTicket, which issues the POST to
\* /access/ticket (lines 246, 217).
BeginRequest(ch, mr) ==
  [ch EXCEPT !.pc = "ticket", !.method = mr.method, !.endpoint = mr.endpoint,
             !.data = mr.data, !.ticket = Undefined,
             !.posts = <<TicketPost>>, !.reqs = <<>>,
             !.granted = 0, !.issuedBefore = remote.issued, !.calls = @ + 1]

\* Handler entry: the try block runs up to its first await.
StartCall(call) ==
  BeginRequest([IdleChain EXCEPT !.tool = call.tool, !.args = call.args],
               TryBlock(call.tool, call.args, <<>>).call)

\* The awaited makeRequest call has settled with `out`: the try block runs
\* on to its next await, or the handler returns its result.
Advance(ch, out) ==
  LET outs == Append(ch.outs, out)
      next == TryBlock(ch.tool, ch.args, outs)
      settled == [ch EXCEPT !.outs = outs, !.outcome = out]
  IN IF next.kind = "call"
     THEN BeginRequest(settled, next.call)
     ELSE [settled EXCEPT !.pc = "returned",
                          !.result = HandlerResult(ch.tool, ch.args, next)]

\* A failure that is retried: the ticket POST or the API request is issued
\* again and the chain keeps waiting.
FailRetry(ch, err) ==
  IF ch.pc = "ticket"
  THEN [ch EXCEPT !.posts = Append(@, TicketPost)]
  ELSE [ch EXCEPT !.reqs = Append(@, ch.reqs[Len(ch.reqs)])]

\* A failure of makeRequest is thrown at the handler's await.
Fail(ch, err) == Advance(ch, err)

\* AfterTicket with a ticket cache: the first ticket ever issued is used for
\* every request.
AfterTicketCached(ch, resp) ==
  LET got == GetTicketOutcome(resp)
  IN IF got.kind = "return"
     THEN [ch EXCEPT !.pc = "request", !.ticket = TicketData(1),
                     !.reqs = Append(ch.reqs,
                                     ApiRequest(ch.method, ch.endpoint, ch.data, TicketData(1)))]
     ELSE Fail(ch, got)

\* AfterTicket with the ticket in a module-level variable that every
\* acquisition overwrites: the request is built from the ticket issued last
\* before this answer, whichever call chain acquired it.
AfterTicketShared(ch, resp) ==
  LET got == GetTicketOutcome(resp)
      shared == IF remote.issued = 0 THEN got.value ELSE TicketData(remote.issued)
  IN IF got.kind = "return"
     THEN [ch EXCEPT !.pc = "request", !.ticket = shared,
                     !.reqs = Append(ch.reqs,
                                     ApiRequest(ch.method, ch.endpoint, ch.data, shared))]
     ELSE Fail(ch, got)

\* The answer to the ticket POST arrives: getTicket returns or throws; on a
\* return makeRequest builds its config and issues the API request (242-263).
AfterTicket(ch, resp) ==
  LET got == GetTicketOutcome(resp)
  IN IF got.kind = "return"
     THEN [ch EXCEPT !.pc = "request", !.ticket = got.value,
                     !.reqs = Append(ch.reqs,
                                     ApiRequest(ch.method, ch.endpoint, ch.data, got.value))]
     ELSE Fail(ch, got)

\* The answer to the API request arrives: makeRequest returns or throws and
\* the handler goes on (264-292 and the handler's try/catch).
AfterResponse(ch, resp) ==
  LET out == MakeRequestOutcome(resp)
  IN IF out.kind = "return" THEN Advance(ch, out) ELSE Fail(ch, out)

\* The handler has returned: the locals of the call chain are gone.
Finished(ch) == IdleChain

(***************************************************************************)
(* State machine.                                                          *)
(***************************************************************************)
\* The environments of a process that is serving: the required variables
\* set, verification left on (unset) or switched off.
EnvValues ==
  { [PROXMOX_HOST |-> Str("pve.example.com"), PROXMOX_USER |-> Str("root@pam"),
     PROXMOX_PASSWORD |-> Str("secret"), PROXMOX_PORT |-> Undefined,
     PROXMOX_VERIFY_SSL |-> v] : v \in {Undefined, Str("false")} }

NoEvent == [chain |-> "none", step |-> "none", resp |-> Undefined]

\* The process: "loading" (the module starts to run), "failed" (it threw at
\* load), "configured" (the configuration was accepted), "registered" (the
\* tools are registered), "serving" (the transport is connected).
Loading == [phase |-> "loading", tools |-> FALSE, connected |-> FALSE, error |-> ""]
Serving == [phase |-> "serving", tools |-> TRUE, connected |-> TRUE, error |-> ""]

Init ==
  /\ env \in EnvValues
  /\ remote \in {[issued |-> 0, selfSigned |-> b] : b \in BOOLEAN}
  /\ chain = [c \in Chains |-> IdleChain]
  /\ wire = [toolCalls |-> 0, invocations |-> 0, ticketPosts |-> 0, apiRequests |-> 0]
  /\ last = NoEvent
  /\ server = Serving

\* The requests a chain has put on the wire in going from `old` to `new`.
Tap(old, new) ==
  [posts |-> IF new.calls = old.calls THEN Len(new.posts) - Len(old.posts)
             ELSE Len(new.posts),
   reqs |-> IF new.calls = old.calls THEN Len(new.reqs) - Len(old.reqs)
            ELSE Len(new.reqs)]

\* `new` with the requests it has sent since `old` counted.
Counted(old, new) ==
  [new EXCEPT !.sent = [posts |-> old.sent.posts + Tap(old, new).posts,
                        reqs |-> old.sent.reqs + Tap(old, new).reqs]]

\* The wire's counters after a chain went from `old` to `new`.
Sent(old, new) ==
  [wire EXCEPT !.invocations = @ + new.calls - old.calls,
               !.ticketPosts = @ + Tap(old, new).posts,
               !.apiRequests = @ + Tap(old, new).reqs]

\* A client invokes one of the tool calls on an idle call chain.
Invoke(c, calls) ==
  /\ server.phase = "serving"
  /\ chain[c].pc = "idle"
  /\ wire.toolCalls < MaxInvocations
  /\ \E call \in calls :
       LET new == Counted(IdleChain, StartCall(call))
       IN /\ chain' = [chain EXCEPT ![c] = new]
          /\ wire' = [Sent(IdleChain, new) EXCEPT !.toolCalls = @ + 1]
  /\ last' = [chain |-> c, step |-> "invoke", resp |-> Undefined]
  /\ UNCHANGED <<env, remote, server>>

\* The network answers the ticket POST of chain c.
TicketResponse(c) ==
  /\ chain[c].pc = "ticket"
  /\ \E resp \in Answers(chain[c].posts[Len(chain[c].posts)],
                         TicketAnswers(remote.issued)) :
       LET issues == resp.kind = "response" /\ Truthy(Get(resp.body, "data"))
           new == Counted(chain[c],
                          AfterTicket([chain[c] EXCEPT !.granted =
                                         IF issues THEN remote.issued + 1 ELSE @], resp))
       IN /\ chain' = [chain EXCEPT ![c] = new]
          /\ remote' = [remote EXCEPT !.issued = IF issues THEN @ + 1 ELSE @]
          /\ wire' = Sent(chain[c], new)
          /\ last' = [chain |-> c, step |-> "ticket", resp |-> resp]
  /\ UNCHANGED <<env, server>>

\* The network answers the API request of chain c with one of `responses`.
ApiResponse(c, responses) ==
  /\ chain[c].pc = "request"
  /\ \E resp \in Answers(chain[c].reqs[Len(chain[c].reqs)], responses) :
       LET new == Counted(chain[c], AfterResponse(chain[c], resp))
       IN /\ chain' = [chain EXCEPT ![c] = new]
          /\ wire' = Sent(chain[c], new)
          /\ last' = [chain |-> c, step |-> "api", resp |-> resp]
  /\ UNCHANGED <<env, remote, server>>

\* The result of chain c has been delivered to the client.
Finish(c) ==
  /\ chain[c].pc = "returned"
  /\ chain' = [chain EXCEPT ![c] = Finished(chain[c])]
  /\ last' = [chain |-> c, step |-> "finish", resp |-> Undefined]
  /\ UNCHANGED <<env, remote, wire, server>>

Next ==
  \E c \in Chains :
    \/ Invoke(c, ToolCalls)
    \/ TicketResponse(c)
    \/ ApiResponse(c, CoreApiAnswers)
    \/ Finish(c)

\* Concurrent call chains against the core answers.
Spec == Init /\ [][Next]_vars

\* One call chain at a time against every answer of the remote API.
NextCall ==
  \/ Invoke("c1", ToolCalls)
  \/ TicketResponse("c1")
  \/ ApiResponse("c1", ApiAnswers)
  \/ Finish("c1")

SpecCall == Init /\ [][NextCall]_vars

\* One call chain at a time, every tool call, against the answers that
\* exercise the handlers.
NextTools ==
  \/ Invoke("c1", AllToolCalls)
  \/ TicketResponse("c1")
  \/ ApiResponse("c1", ToolApiAnswers)
  \/ Finish("c1")

SpecTools == Init /\ [][NextTools]_vars

\* One call chain at a time, the tools that build payloads and start tasks.
NextPayload ==
  \/ Invoke("c1", PayloadToolCalls)
  \/ TicketResponse("c1")
  \/ ApiResponse("c1", PayloadApiAnswers)
  \/ Finish("c1")

SpecPayload == Init /\ [][NextPayload]_vars

(***************************************************************************)
(* Startup (index.ts lines 11-21, 202, 298-3428, 3430-3471).               *)
(***************************************************************************)
\* The environments the process can be started in: each required variable
\* unset, empty or set; PROXMOX_VERIFY_SSL unset or one of four strings.
StartupEnvValues ==
  { [PROXMOX_HOST |-> h, PROXMOX_USER |-> u, PROXMOX_PASSWORD |-> p,
     PROXMOX_PORT |-> Undefined, PROXMOX_VERIFY_SSL |-> v] :
      h \in {Undefined, Str(""), Str("pve.example.com")},
      u \in {Undefined, Str(""), Str("root@pam")},
      p \in {Undefined, Str(""), Str("secret")},
      v \in {Undefined, Str("false"), Str("true"), Str("FALSE"), Str("0")} }

InitStartup ==
  /\ env \in StartupEnvValues
  /\ remote \in {[issued |-> 0, selfSigned |-> b] : b \in BOOLEAN}
  /\ chain = [c \in Chains |-> IdleChain]
  /\ wire = [toolCalls |-> 0, invocations |-> 0, ticketPosts |-> 0, apiRequests |-> 0]
  /\ last = NoEvent
  /\ server = Loading

\* Lines 11-21: the configuration is read and checked; the module throws
\* when a required variable is missing.
LoadConfig ==
  /\ server.phase = "loading"
  /\ server' = IF ConfigMissing
                THEN [server EXCEPT !.phase = "failed", !.error = ConfigError]
                ELSE [server EXCEPT !.phase = "configured"]
  /\ UNCHANGED <<env, remote, chain, wire, last>>

\* Lines 202-3428: the server object is created and the tools are registered.
RegisterTools ==
  /\ server.phase = "configured"
  /\ server' = [server EXCEPT !.phase = "registered", !.tools = TRUE]
  /\ UNCHANGED <<env, remote, chain, wire, last>>

\* Lines 3430-3471: the transport (HTTP or stdio) is created and connected.
Connect ==
  /\ server.phase = "registered"
  /\ server' = [server EXCEPT !.phase = "serving", !.connected = TRUE]
  /\ UNCHANGED <<env, remote, chain, wire, last>>

NextStartup ==
  \/ LoadConfig
  \/ RegisterTools
  \/ Connect
  \/ Invoke("c1", ToolCalls)
  \/ TicketResponse("c1")
  \/ ApiResponse("c1", CoreApiAnswers)
  \/ Finish("c1")

\* The process from its start, in every environment.
SpecStartup == InitStartup /\ [][NextStartup]_vars

(***************************************************************************)
(* Vocabulary of the properties.                                           *)
(***************************************************************************)
\* The chain whose network step was the last event, and the answer it got.
TicketAnswered(c) == last.chain = c /\ last.step = "ticket"
ApiAnswered(c) == last.chain = c /\ last.step = "api"
ApiResponded(c) == ApiAnswered(c) /\ last.resp.kind = "response"

\* An authentication failure is an error thrown by getTicket (line 236); an
\* API failure is one thrown by makeRequest itself (lines 275 and 288).
IsAuthenticationError(e) == e.kind = "throw" /\ e.line = 236
IsApiError(e) == e.kind = "throw" /\ e.line \in {275, 288}

TicketUrl == API_BASE \o "/access/ticket"

(***************************************************************************)
(* C1: every request makeRequest issues to an endpoint other than          *)
(* /access/ticket carries the cookie PVEAuthCookie=<ticket> and the        *)
(* CSRFPreventionToken header, both taken from the ticket the control      *)
(* plane issued to the getTicket call of that same invocation.             *)
(***************************************************************************)
C1_TicketAttached ==
  \A c \in Chains : \A i \in 1..Len(chain[c].reqs) :
    LET r == chain[c].reqs[i]
        n == chain[c].granted
    IN r.url # TicketUrl =>
         /\ n > chain[c].issuedBefore
         /\ r.headers.Cookie = "PVEAuthCookie=PVE:root@pam:" \o ToString(n)
         /\ r.headers.CSRFPreventionToken = Str("CSRF:" \o ToString(n))

\* Two call chains have their API requests in flight, each with its own ticket.
C1_Witness ==
  /\ chain["c1"].pc = "request" /\ chain["c2"].pc = "request"
  /\ chain["c1"].reqs[1].headers.Cookie = "PVEAuthCookie=PVE:root@pam:2"
  /\ chain["c2"].reqs[1].headers.Cookie = "PVEAuthCookie=PVE:root@pam:1"

(***************************************************************************)
(* C2: whenever the answer to the authenticated call has status >= 400 or  *)
(* a body with an `errors` field, makeRequest throws and returns no value, *)
(* whatever else the body contains.                                        *)
(***************************************************************************)
C2_ErrorResponseAlwaysFails ==
  \A c \in Chains :
    (ApiResponded(c) /\ (last.resp.status >= 400 \/ Has(last.resp.body, "errors")))
      => chain[c].outcome.kind = "throw"

(***************************************************************************)
(* C3: a response with status 200 and body {"data": X} makes makeRequest   *)
(* return X unchanged, for X an object, an array, a string, a number or    *)
(* absent (absent yields undefined, not an error).                         *)
(***************************************************************************)
C3_DataReturnedUnchanged ==
  \A c \in Chains :
    (ApiResponded(c) /\ last.resp.status = 200 /\ last.resp.body.t = "object") =>
      LET es == last.resp.body.entries
      IN /\ es = <<>> => chain[c].outcome = [kind |-> "return", value |-> Undefined]
         /\ (Len(es) = 1 /\ es[1][1] = "data"
             /\ es[1][2].t \in {"object", "array", "string", "number"})
              => chain[c].outcome = [kind |-> "return", value |-> es[1][2]]

\* makeRequest has returned the array of a 200 answer {"data": ["local"]}.
C3_Witness ==
  \E c \in Chains :
    /\ ApiResponded(c) /\ last.resp.status = 200
    /\ last.resp.body = Obj(<< <<"data", Arr(<< Str("local") >>)>> >>)
    /\ chain[c].pc = "returned"
    /\ chain[c].outcome.kind = "return"

(***************************************************************************)
(* C4: for a response with status >= 400 whose `errors` is a list of       *)
(* strings, the error message is the list entries joined in order with no  *)
(* index or key prefix; {"errors": ["storage not found"]} yields exactly   *)
(* "storage not found".                                                    *)
(***************************************************************************)
C4_ListErrorsJoinedPlain ==
  \A c \in Chains :
    (/\ ApiResponded(c) /\ last.resp.status >= 400
     /\ Get(last.resp.body, "errors").t = "array"
     /\ chain[c].outcome.kind = "throw")
      => LET items == Get(last.resp.body, "errors").items
             strs == [i \in 1..Len(items) |-> items[i].s]
         IN \E sep \in {"; ", ", ", " ", "\n"} :
              chain[c].outcome.message = Join(strs, sep)

(***************************************************************************)
(* C5: for a response with status >= 400 whose `errors` is a mapping, the  *)
(* error message is the entries rendered "key: value" and joined with "; " *)
(* in the mapping's order; {"errors": {"vmid": "already exists"}} yields   *)
(* exactly "vmid: already exists".                                         *)
(***************************************************************************)
RECURSIVE KeyValueLines(_)
KeyValueLines(es) ==
  IF es = <<>> THEN ""
  ELSE LET n == Len(es)
           lastPair == es[n][1] \o ": " \o es[n][2].s
       IN IF n = 1 THEN lastPair
          ELSE KeyValueLines(SubSeq(es, 1, n - 1)) \o "; " \o lastPair

C5_MappingErrorsJoined ==
  \A c \in Chains :
    (/\ ApiResponded(c) /\ last.resp.status >= 400
     /\ Get(last.resp.body, "errors").t = "object")
      => LET errors == Get(last.resp.body, "errors")
         IN /\ ~Has(last.resp.body, "data") => chain[c].outcome.kind = "throw"
            /\ chain[c].outcome.kind = "throw" =>
                 /\ chain[c].outcome.message = KeyValueLines(errors.entries)
                 /\ errors = Obj(<< <<"vmid", Str("already exists")>> >>)
                      => chain[c].outcome.message = "vmid: already exists"

\* makeRequest has thrown on a 400 answer with a mapping of two entries.
C5_Witness ==
  \E c \in Chains :
    /\ ApiResponded(c) /\ last.resp.status = 400
    /\ Get(last.resp.body, "errors").t = "object"
    /\ Len(Get(last.resp.body, "errors").entries) = 2
    /\ chain[c].outcome.kind = "throw"
    /\ chain[c].outcome.message = "vmid: already exists; net0: invalid format"

(***************************************************************************)
(* C6: for a response with status s >= 400 whose body has no `errors`      *)
(* field, makeRequest fails with "Request failed with status <s>".         *)
(***************************************************************************)
C6_StatusFallbackMessage ==
  \A c \in Chains :
    (ApiResponded(c) /\ last.resp.status >= 400 /\ ~Has(last.resp.body, "errors"))
      => /\ chain[c].outcome.kind = "throw"
         /\ chain[c].outcome.message
              = "Request failed with status " \o ToString(last.resp.status)

(***************************************************************************)
(* C7: if the body of the answer to the ticket POST has no `data` field,   *)
(* makeRequest fails with an authentication error and no request to the    *)
(* target endpoint is issued for that call.                                *)
(***************************************************************************)
C7_NoTicketNoRequest ==
  \A c \in Chains :
    (/\ TicketAnswered(c) /\ last.resp.kind = "response"
     /\ ~Has(last.resp.body, "data"))
      => /\ IsAuthenticationError(chain[c].outcome)
         /\ chain[c].outcome.message
              = "Authentication failed: Failed to get authentication ticket"
         /\ chain[c].reqs = <<>>
         /\ chain[c].pc = "returned"

\* A call whose ticket POST was answered 200 with a body {} has failed
\* while the other chain's API request is in flight.
C7_Witness ==
  /\ TicketAnswered("c2") /\ last.resp.kind = "response"
  /\ last.resp.status = 200 /\ last.resp.body = Obj(<<>>)
  /\ chain["c2"].pc = "returned" /\ chain["c2"].result.isError
  /\ chain["c1"].pc = "request"
  /\ wire.apiRequests = 1

C9_FreshTicketPerCall ==
  /\ wire.ticketPosts = wire.invocations
  /\ \A c \in Chains :
       /\ chain[c].pc # "idle" => Len(chain[c].posts) = 1
       /\ chain[c].pc = "idle" => chain[c].ticket = Undefined /\ chain[c].reqs = <<>>
       /\ \A i \in 1..Len(chain[c].reqs) :
            /\ chain[c].ticket = TicketData(chain[c].granted)
            /\ chain[c].reqs[i].headers.Cookie
                 \notin {"PVEAuthCookie=PVE:root@pam:" \o ToString(k) :
                            k \in 1..chain[c].issuedBefore}
       /\ \A d \in Chains \ {c} :
            (chain[c].reqs # <<>> /\ chain[d].reqs # <<>>) =>
              chain[c].reqs[1].headers # chain[d].reqs[1].headers

\* A third call has its request in flight after two earlier calls got tickets.
C9_Witness ==
  \E c \in Chains :
    /\ chain[c].pc = "request"
    /\ chain[c].issuedBefore = 2
    /\ wire.invocations = 3
    /\ chain[c].reqs[1].headers.Cookie = "PVEAuthCookie=PVE:root@pam:3"

(***************************************************************************)
(* C10: no network step is retried: one invocation issues at most one POST *)
(* to /access/ticket and at most one request to the target endpoint, and a *)
(* failing step (authentication failure, transport failure, status >= 400  *)
(* without data) is followed at once by the handler's error result.        *)
(***************************************************************************)
C10_NoRetry ==
  /\ wire.ticketPosts <= wire.invocations
  /\ wire.apiRequests <= wire.invocations
  /\ \A c \in Chains :
       /\ Len(chain[c].posts) <= 1
       /\ Len(chain[c].reqs) <= 1
       /\ (/\ TicketAnswered(c)
           /\ (last.resp.kind = "failure" \/ ~Has(last.resp.body, "data")))
            => /\ chain[c].pc = "returned" /\ chain[c].result.kind = "result"
               /\ chain[c].result.isError
               /\ chain[c].reqs = <<>>
       /\ (/\ ApiAnswered(c)
           /\ (\/ last.resp.kind = "failure"
               \/ (last.resp.status >= 400 /\ ~Has(last.resp.body, "data"))
               \/ (~Has(last.resp.body, "data")
                   /\ Get(last.resp.body, "errors").t \in {"object", "array"})))
            => /\ chain[c].pc = "returned" /\ chain[c].result.kind = "result"
               /\ chain[c].result.isError

\* A call has failed on a 400 answer after exactly one POST and one request.
C10_Witness ==
  \E c \in Chains :
    /\ ApiResponded(c) /\ last.resp.status = 400
    /\ chain[c].pc = "returned" /\ chain[c].result.isError
    /\ Len(chain[c].posts) = 1 /\ Len(chain[c].reqs) = 1
    /\ wire.ticketPosts = wire.invocations

(***************************************************************************)
(* C11: a request with method delete carries the payload of the            *)
(* makeRequest call as URL query parameters and has no body; a request     *)
(* with method post or put carries it as the body and has no query         *)
(* parameters. delete_vm with force sends ?force=1, upgrade_proxmox with   *)
(* dist_upgrade sends the body {"dist_upgrade": "1"}.                      *)
(***************************************************************************)
C11_PayloadPlacement ==
  \A c \in Chains : \A i \in 1..Len(chain[c].reqs) :
    LET r == chain[c].reqs[i]
    IN /\ r.method = "delete" => r.params = chain[c].data /\ r.data = Undefined
       /\ r.method \in {"post", "put"} => r.data = chain[c].data /\ r.params = Undefined
       /\ chain[c].tool = "delete_vm" =>
            /\ r.method = "delete"
            /\ r.params = Obj(<< <<"force", Str("1")>> >>)
       /\ chain[c].tool = "upgrade_proxmox" =>
            /\ r.method = "post"
            /\ r.data = Obj(<< <<"dist_upgrade", Str("1")>> >>)

\* The DELETE of delete_vm is in flight with its payload in the query, after
\* an earlier invocation.
C11_Witness ==
  \E c \in Chains :
    /\ chain[c].pc = "request" /\ chain[c].tool = "delete_vm"
    /\ wire.toolCalls = 2
    /\ chain[c].reqs[1].method = "delete"
    /\ chain[c].reqs[1].params = Obj(<< <<"force", Str("1")>> >>)
    /\ chain[c].reqs[1].data = Undefined

(***************************************************************************)
(* C12: when the transport fails on the API request, after a ticket was    *)
(* obtained, makeRequest returns no value and throws; the error's message  *)
(* carries the transport's own message, unless a partial response with an  *)
(* `errors` body was captured, and then it carries that body rendered by   *)
(* the rule of HTTP error responses ("key: value" joined with "; ").       *)
(***************************************************************************)
C12_TransportFailureMessage ==
  \A c \in Chains :
    (ApiAnswered(c) /\ last.resp.kind = "failure") =>
      LET errors == Get(last.resp.partial, "errors")
          out == chain[c].outs[Len(chain[c].outs)]
      IN /\ chain[c].ticket = TicketData(chain[c].granted)
         /\ out.kind = "throw" /\ out = chain[c].outcome
         /\ errors.t = "undefined" =>
              out.message = "Proxmox API error: " \o last.resp.message
         /\ errors.t = "object" =>
              out.message = "Proxmox API error: " \o KeyValueLines(errors.entries)

\* The API request was aborted with a partial response {"errors": {"vmid":
\* "already exists"}} and the message is built from that body.
C12_Witness ==
  \E c \in Chains :
    /\ ApiAnswered(c) /\ last.resp.kind = "failure"
    /\ last.resp.message = "Request aborted"
    /\ Has(last.resp.partial, "errors")
    /\ chain[c].outcome.kind = "throw"
    /\ chain[c].outcome.message = "Proxmox API error: vmid: already exists"

(***************************************************************************)
(* Vocabulary of the handler properties.                                   *)
(***************************************************************************)
\* The i-th makeRequest call of the invocation on chain c has failed.
CallFailed(c, i) == i \in 1..Len(chain[c].outs) /\ chain[c].outs[i].kind = "throw"

\* The call is one of list_isos' requests for the content of a storage, made
\* after the storages were listed (list_isos without a storage argument).
IsStorageContentCall(c, i) ==
  chain[c].tool = "list_isos" /\ ~Truthy(chain[c].args.storage) /\ i >= 2

\* The handler on chain c has returned the error result for `message`.
ReportsError(c, message) ==
  /\ chain[c].pc = "returned"
  /\ chain[c].result.kind = "result"
  /\ chain[c].result.isError
  /\ chain[c].result.text = Str(ErrorPrefix(chain[c].tool) \o message)

(***************************************************************************)
(* C13, as claimed: for every tool, whenever a request-layer call made by  *)
(* its handler fails, the handler returns a result flagged isError whose   *)
(* text is "Error <doing X>: <message>"; a handler never reports success   *)
(* for an invocation in which one of its request-layer calls failed.       *)
(***************************************************************************)
C13_EveryFailureReported ==
  \A c \in Chains : \A i \in 1..Len(chain[c].outs) :
    CallFailed(c, i) => ReportsError(c, chain[c].outs[i].message)

(***************************************************************************)
(* C13, amended: whenever a request-layer call made by a handler fails,    *)
(* the handler returns at once a result flagged isError whose text is      *)
(* "Error <doing X>: <message>", except for the requests list_isos makes   *)
(* for the content of each storage when it is called without a storage:    *)
(* the failure of such a request is swallowed, the storage is skipped and  *)
(* the handler reports success with the ISOs of the other storages.        *)
(***************************************************************************)
C13_FailureReportedOrStorageSkipped ==
  \A c \in Chains : \A i \in 1..Len(chain[c].outs) :
    CallFailed(c, i) =>
      IF IsStorageContentCall(c, i)
      THEN chain[c].pc = "returned" =>
             /\ ~chain[c].result.isError
             /\ chain[c].result.text.t = "string"
      ELSE /\ i = Len(chain[c].outs)
           /\ ReportsError(c, chain[c].outs[i].message)
           /\ chain[c].tool = "get_node_status" =>
                chain[c].result.text
                  = Str("Error getting node status: " \o chain[c].outs[i].message)
           /\ chain[c].tool = "list_isos" =>
                chain[c].result.text
                  = Str("Error listing ISOs: " \o chain[c].outs[i].message)

\* list_isos without a storage has reported success although the request
\* for the content of the first ISO storage failed.
C13_Witness ==
  \E c \in Chains :
    /\ chain[c].tool = "list_isos" /\ chain[c].args.storage = Undefined
    /\ chain[c].pc = "returned"
    /\ Len(chain[c].outs) = 3
    /\ chain[c].outs[2].kind = "throw"
    /\ chain[c].outs[3].kind = "return"
    /\ ~chain[c].result.isError

(***************************************************************************)
(* C14: no handler propagates an exception: whatever the request layer     *)
(* yields (a failure, a value, undefined, a value of an unexpected shape)  *)
(* the handler returns a result, a TypeError of its own statements         *)
(* included; once the result is delivered nothing of the invocation is     *)
(* left, and the next invocation is served like a first one.               *)
(***************************************************************************)
C14_HandlerAlwaysReturns ==
  \A c \in Chains :
    LET ch == chain[c]
        n == Len(ch.outs)
    IN /\ ch.pc = "returned" => ch.result.kind = "result" /\ ch.result.isError \in BOOLEAN
       /\ ch.pc \in {"ticket", "request"} => ch.result = NoResult
       /\ ch.pc = "idle" =>
            /\ ch = IdleChain
            /\ wire.toolCalls < MaxInvocations => ENABLED Invoke(c, AllToolCalls)
       /\ (ch.tool = "upgrade_proxmox" /\ n = 1 /\ ch.outs[1] = Resolved(Undefined)) =>
            ReportsError(c, "Cannot read properties of undefined (reading 'taskid')")
       /\ (ch.tool = "list_vm_snapshots" /\ n = 1 /\ ch.outs[1] = Resolved(Undefined)) =>
            ReportsError(c, "Cannot read properties of undefined (reading 'data')")
       /\ (ch.tool = "get_running_vms" /\ n = 2 /\ ch.outs[2].kind = "return") =>
            /\ ch.pc = "returned"
            /\ ch.outs[1].value = Undefined =>
                 ReportsError(c, "Cannot read properties of undefined (reading 'filter')")
            /\ ch.outs[1].value.t \in {"string", "object"} =>
                 ReportsError(c, "vms.filter is not a function")
            /\ (ch.outs[1].value.t = "array" /\ ch.outs[2].value.t \in {"string", "object"}) =>
                 ReportsError(c, "containers.filter is not a function")

\* After an earlier invocation, upgrade_proxmox got a success without
\* content and has returned the TypeError of `result.taskid` as its result.
C14_Witness ==
  \E c \in Chains :
    /\ wire.toolCalls = 2
    /\ chain[c].tool = "upgrade_proxmox" /\ chain[c].pc = "returned"
    /\ chain[c].outs = << Resolved(Undefined) >>
    /\ chain[c].result
         = [kind |-> "result", isError |-> TRUE,
            text |-> Str("Error upgrading Proxmox: "
                         \o "Cannot read properties of undefined (reading 'taskid')")]

(***************************************************************************)
(* C15: on success a read/list tool (here get_node_status and              *)
(* list_vm_snapshots) returns as its text the JSON serialisation of the    *)
(* value the remote API returned in `data`, unchanged, whenever that value *)
(* is an array or an object.                                               *)
(***************************************************************************)
C15_DataPassedThrough ==
  \A c \in Chains :
    (/\ chain[c].tool \in {"get_node_status", "list_vm_snapshots"}
     /\ ApiResponded(c) /\ last.resp.status = 200
     /\ Get(last.resp.body, "data").t \in {"array", "object"})
      => /\ chain[c].pc = "returned"
         /\ ~chain[c].result.isError
         /\ chain[c].result.text = Str(Stringify(Get(last.resp.body, "data"), ""))

(***************************************************************************)
(* C16, as claimed: every tool invocation is a single authenticated round  *)
(* trip: it performs exactly one ticket acquisition followed by exactly    *)
(* one request to the remote API (the request being left out only when     *)
(* the ticket acquisition failed).                                         *)
(***************************************************************************)
C16_SingleRoundTrip ==
  \A c \in Chains :
    /\ chain[c].sent.posts <= 1
    /\ chain[c].sent.reqs <= 1
    /\ chain[c].pc = "returned" =>
         /\ chain[c].sent.posts = 1
         /\ ~IsAuthenticationError(chain[c].outs[1]) => chain[c].sent.reqs = 1

\* How many API requests the invocation on chain c has issued, by its
\* outcomes: one for each makeRequest call that got its ticket.
RequestsDue(c) ==
  Cardinality({i \in 1..Len(chain[c].outs) : ~IsAuthenticationError(chain[c].outs[i])})
  + (IF chain[c].pc = "request" THEN 1 ELSE 0)

\* How many storages of a listing hold ISOs.
IsoStorageCount(out) ==
  IF out.kind = "return" /\ out.value.t = "array"
  THEN Cardinality({i \in 1..Len(out.value.items) :
                      Get(out.value.items[i], "content")
                        \in {Str("iso"), Str("iso,backup"), Str("images,iso")}})
  ELSE 0

(***************************************************************************)
(* C16, amended: every makeRequest call is a single authenticated round    *)
(* trip, one ticket acquisition followed by at most one API request (none  *)
(* when no ticket was obtained). A tool invocation makes one makeRequest   *)
(* call, except get_running_vms and get_ha_status, which make a second one *)
(* when the first succeeded, and list_isos without a storage, which makes  *)
(* one more call for each storage that holds ISOs.                         *)
(***************************************************************************)
C16_RoundTripPerRequestCall ==
  \A c \in Chains :
    LET ch == chain[c]
    IN /\ ch.pc # "idle" => Len(ch.posts) = 1 /\ Len(ch.reqs) <= 1
       /\ ch.pc = "request" => Len(ch.reqs) = 1
       /\ ch.reqs # <<>> => ch.granted > ch.issuedBefore
       /\ ch.sent.posts = ch.calls
       /\ ch.sent.reqs = RequestsDue(c)
       /\ ch.pc = "returned" =>
            ch.calls =
              CASE ch.tool \in {"get_running_vms", "get_ha_status"} ->
                     IF ch.outs[1].kind = "throw" THEN 1 ELSE 2
                [] ch.tool = "list_isos" /\ ch.args.storage = Undefined ->
                     1 + IsoStorageCount(ch.outs[1])
                [] OTHER -> 1

\* list_isos without a storage has returned after three round trips: the
\* storage listing and the content of the two storages that hold ISOs.
C16_Witness ==
  \E c \in Chains :
    /\ chain[c].tool = "list_isos" /\ chain[c].args.storage = Undefined
    /\ chain[c].pc = "returned"
    /\ chain[c].calls = 3
    /\ chain[c].sent = [posts |-> 3, reqs |-> 3]

(***************************************************************************)
(* C17: when two tool invocations run concurrently, under every            *)
(* interleaving of their network steps, a step of one call chain leaves    *)
(* everything of the other chain as it was; the API request of a chain     *)
(* carries the ticket of the answer to its own ticket POST; and the result *)
(* of a chain is the result the handler produces from its own answer       *)
(* alone.                                                                  *)
(***************************************************************************)
C17_ChainsIndependent ==
  [][\A c \in Chains :
       /\ last'.chain # c => chain'[c] = chain[c]
       /\ (last'.chain = c /\ last'.step = "ticket" /\ chain'[c].pc = "request") =>
            LET own == Get(last'.resp.body, "data")
            IN /\ chain'[c].reqs[1].headers.Cookie
                    = "PVEAuthCookie=" \o Get(own, "ticket").s
               /\ chain'[c].reqs[1].headers.CSRFPreventionToken
                    = Get(own, "CSRFPreventionToken")
               /\ \A d \in Chains \ {c} :
                    chain'[d].ticket # Undefined =>
                      chain'[c].reqs[1].headers.Cookie
                        # "PVEAuthCookie=" \o Get(chain'[d].ticket, "ticket").s
       /\ (last'.chain = c /\ last'.step = "api") =>
            /\ chain'[c].pc = "returned"
            /\ chain'[c].result
                 = HandlerResult(chain[c].tool, chain[c].args,
                                 TryBlock(chain[c].tool, chain[c].args,
                                          << MakeRequestOutcome(last'.resp) >>))
    ]_vars

\* Two interleaved invocations have both returned, the one that got the
\* second ticket with an error and the other with a success.
C17_Witness ==
  /\ chain["c1"].pc = "returned" /\ chain["c2"].pc = "returned"
  /\ chain["c1"].granted = 2 /\ chain["c2"].granted = 1
  /\ chain["c1"].result.isError /\ ~chain["c2"].result.isError
  /\ chain["c1"].reqs[1].headers.Cookie = "PVEAuthCookie=PVE:root@pam:2"
  /\ chain["c2"].reqs[1].headers.Cookie = "PVEAuthCookie=PVE:root@pam:1"

(***************************************************************************)
(* C18: certificate verification is off only when PROXMOX_VERIFY_SSL is    *)
(* exactly "false" (unset, "true", "FALSE", "0" keep it on); every ticket  *)
(* POST and every API request of every call uses that same setting: with   *)
(* verification on, a self-signed certificate is rejected on whichever     *)
(* network call meets it, and with verification off none is rejected.      *)
(***************************************************************************)
C18_TlsSettingFromConfig ==
  LET off == env.PROXMOX_VERIFY_SSL.t = "string" /\ env.PROXMOX_VERIFY_SSL.s = "false"
  IN \A c \in Chains :
       /\ \A i \in 1..Len(chain[c].posts) : chain[c].posts[i].rejectUnauthorized = ~off
       /\ \A i \in 1..Len(chain[c].reqs) : chain[c].reqs[i].rejectUnauthorized = ~off
       /\ (TicketAnswered(c) \/ ApiAnswered(c)) =>
            /\ (~off /\ remote.selfSigned) =>
                 /\ last.resp = CertFailure
                 /\ chain[c].outcome.kind = "throw"
            /\ off => last.resp # CertFailure

\* Started with PROXMOX_VERIFY_SSL=FALSE against a self-signed server, the
\* ticket POST of the second invocation was rejected for the certificate.
C18_Witness ==
  /\ env.PROXMOX_VERIFY_SSL = Str("FALSE")
  /\ remote.selfSigned
  /\ wire.toolCalls = 2
  /\ TicketAnswered("c1") /\ last.resp = CertFailure
  /\ chain["c1"].posts[1].rejectUnauthorized

(***************************************************************************)
(* C19: if host, user or password is unset or empty when the process       *)
(* starts, the process fails with the configuration error before any tool  *)
(* is registered, before a transport is connected and before any network   *)
(* call is made; if all three are set, startup never fails on              *)
(* configuration.                                                          *)
(***************************************************************************)
C19_MissingConfigFailsFirst ==
  LET missing == \E k \in {"PROXMOX_HOST", "PROXMOX_USER", "PROXMOX_PASSWORD"} :
                   env[k] \in {Undefined, Str("")}
  IN /\ missing =>
          /\ server.phase \in {"loading", "failed"}
          /\ ~server.tools /\ ~server.connected
          /\ wire.toolCalls = 0 /\ wire.ticketPosts = 0 /\ wire.apiRequests = 0
          /\ \A c \in Chains : chain[c].pc = "idle"
          /\ server.phase = "failed" =>
               server.error = "PROXMOX_HOST, PROXMOX_USER, and PROXMOX_PASSWORD "
                              \o "environment variables are required"
     /\ ~missing => server.phase # "failed" /\ server.error = ""

\* Started with host and user set and an empty password, the process has
\* failed at load.
C19_Witness ==
  /\ env.PROXMOX_HOST = Str("pve.example.com")
  /\ env.PROXMOX_USER = Str("root@pam")
  /\ env.PROXMOX_PASSWORD = Str("")
  /\ server.phase = "failed"
  /\ ~server.tools /\ ~server.connected

(***************************************************************************)
(* C20, as claimed: for every status code of the answer to the ticket      *)
(* POST, getTicket returns the body's `data` value when the body has a     *)
(* `data` field and fails otherwise.                                       *)
(***************************************************************************)
C20_TicketByDataField ==
  \A c \in Chains :
    (TicketAnswered(c) /\ last.resp.kind = "response") =>
      IF Has(last.resp.body, "data")
      THEN /\ chain[c].ticket = Get(last.resp.body, "data")
           /\ Len(chain[c].reqs) = 1
      ELSE /\ IsAuthenticationError(chain[c].outcome)
           /\ chain[c].reqs = <<>>

(***************************************************************************)
(* C20, amended: the outcome of ticket acquisition depends only on the     *)
(* body of the answer, not on its status: for every status code getTicket  *)
(* returns the body's `data` value when the body has a `data` field whose  *)
(* value is truthy (not null), and fails with "Authentication failed:      *)
(* Failed to get authentication ticket" otherwise.                         *)
(***************************************************************************)
C20_TicketByTruthyData ==
  \A c \in Chains :
    (TicketAnswered(c) /\ last.resp.kind = "response") =>
      LET data == Get(last.resp.body, "data")
      IN /\ last.resp.status \in {200, 401}
         /\ (Has(last.resp.body, "data") /\ data.t \notin {"null", "undefined"}) =>
              /\ chain[c].ticket = data
              /\ Len(chain[c].reqs) = 1
              /\ chain[c].outcome = Pending
         /\ (~Has(last.resp.body, "data") \/ data.t = "null") =>
              /\ chain[c].outcome
                   = [kind |-> "throw", line |-> 236,
                      message |-> "Authentication failed: "
                                  \o "Failed to get authentication ticket"]
              /\ chain[c].ticket = Undefined
              /\ chain[c].reqs = <<>>

\* The ticket POST was answered 401 with a body that carries a ticket, and
\* the API request has been issued with it.
C20_Witness ==
  \E c \in Chains :
    /\ TicketAnswered(c) /\ last.resp.kind = "response"
    /\ last.resp.status = 401
    /\ Get(last.resp.body, "data") = TicketData(1)
    /\ chain[c].pc = "request"
    /\ chain[c].reqs[1].headers.Cookie = "PVEAuthCookie=PVE:root@pam:1"

(***************************************************************************)
(* C21: ticket acquisition has no side effect on local state: every        *)
(* getTicket call posts the same credentials, its outcome is determined by *)
(* the answer to its own POST alone, whatever the earlier calls got, and   *)
(* no step changes the configuration.                                      *)
(***************************************************************************)
C21_TicketAcquisitionIsolated ==
  [][/\ env' = env
     /\ \A c \in Chains :
          /\ (chain'[c].pc = "ticket" /\ chain'[c].calls # chain[c].calls) =>
               chain'[c].posts
                 = << [method |-> "post",
                       url |-> "https://pve.example.com:8006/api2/json/access/ticket",
                       data |-> Obj(<< <<"username", Str("root@pam")>>,
                                       <<"password", Str("secret")>> >>),
                       rejectUnauthorized |-> env.PROXMOX_VERIFY_SSL # Str("false")] >>
          /\ (last'.chain = c /\ last'.step = "ticket") =>
               LET data == IF last'.resp.kind = "response"
                           THEN Get(last'.resp.body, "data") ELSE Undefined
               IN IF data.t = "object"
                  THEN chain'[c].pc = "request" /\ chain'[c].ticket = data
                  ELSE /\ chain'[c].outcome.kind = "throw"
                       /\ chain'[c].outcome.line = 236
                       /\ chain'[c].outcome.message
                            = "Authentication failed: "
                              \o (IF last'.resp.kind = "failure" THEN last'.resp.message
                                  ELSE "Failed to get authentication ticket")
    ]_vars

\* The first getTicket call of the process failed (no ticket was issued to
\* it) and the second, with the same credentials, has obtained a ticket.
C21_Witness ==
  /\ wire.ticketPosts = 2
  /\ wire.invocations = 2
  /\ remote.issued = 1
  /\ TicketAnswered("c1")
  /\ chain["c1"].pc = "request"
  /\ chain["c1"].ticket = Get(last.resp.body, "data")

(***************************************************************************)
(* C22: when the answer to the authenticated call has a 2xx status and a   *)
(* body with neither `data` nor `errors`, makeRequest returns undefined    *)
(* without failing, and delete_vm then reports success.                    *)
(***************************************************************************)
C22_EmptySuccessResolves ==
  \A c \in Chains :
    (/\ ApiResponded(c) /\ last.resp.status \in 200..299
     /\ ~Has(last.resp.body, "data") /\ ~Has(last.resp.body, "errors"))
      => /\ chain[c].outcome = [kind |-> "return", value |-> Undefined]
         /\ chain[c].tool = "delete_vm" =>
              /\ chain[c].pc = "returned"
              /\ ~chain[c].result.isError
              /\ chain[c].result.text
                   = Str("{\n  \"success\": true,\n  \"message\": "
                         \o "\"VM 100 deleted successfully\"\n}")

\* delete_vm has reported success on a 200 answer with the body {}.
C22_Witness ==
  \E c \in Chains :
    /\ ApiResponded(c) /\ last.resp = HttpResponse(200, Obj(<<>>))
    /\ chain[c].tool = "delete_vm" /\ chain[c].pc = "returned"
    /\ chain[c].reqs[1].method = "delete"
    /\ ~chain[c].result.isError

\* The payload of a request on the wire: the query of a DELETE, the body of
\* any other request.
WirePayload(req) == IF req.method = "delete" THEN req.params ELSE req.data

\* C23: every boolean tool argument that reaches the remote API is sent as
\* the string "1" (true) or "0" (false), and no payload entry of a request
\* on the wire is a native boolean.
C23_BooleansAsStringFlags ==
  \A c \in Chains : \A i \in 1..Len(chain[c].reqs) :
    LET payload == WirePayload(chain[c].reqs[i])
    IN payload.t = "object" =>
         \A j \in 1..Len(payload.entries) :
           LET k == payload.entries[j][1]
               v == payload.entries[j][2]
           IN /\ v.t # "boolean"
              /\ (k \in DOMAIN chain[c].args /\ chain[c].args[k].t = "boolean")
                   => v = Str(IF chain[c].args[k].b THEN "1" ELSE "0")

\* migrate_vm with online = true and force = false has its request on the
\* wire with online "1" and force "0".
C23_Witness ==
  /\ chain["c1"].tool = "migrate_vm"
  /\ chain["c1"].pc = "request"
  /\ chain["c1"].args.online = Bool(TRUE)
  /\ chain["c1"].args.force = Bool(FALSE)
  /\ chain["c1"].reqs[1].data =
       Obj(<< <<"target", Str("pve2")>>, <<"vmid", Num(100)>>,
              <<"online", Str("1")>>, <<"force", Str("0")>> >>)

\* The tools that start a task on the remote side, with the endpoint of the
\* request that starts it (for the arguments of PayloadToolCalls).
InitiatingEndpoint ==
  [create_vm_backup |-> "/nodes/pve/backup",
   migrate_vm |-> "/nodes/pve/qemu/100/migrate",
   upgrade_proxmox |-> "/nodes/pve/apt/upgrade",
   download_iso |-> "/nodes/pve/storage/local/upload"]

TaskStatusUrl == API_BASE \o "/nodes/pve/tasks/UPID:pve:0001"

\* C24: a tool that starts a long-running operation makes one makeRequest
\* call, to the endpoint that starts the operation; it puts at most one API
\* request on the wire, never one for a task's status, and has returned as
\* soon as that call is answered. A task's status is requested only by an
\* invocation of get_task_status.
C24_TaskToolsReturnAtOnce ==
  \A c \in Chains :
    LET ch == chain[c]
    IN /\ ch.tool \in DOMAIN InitiatingEndpoint =>
            /\ ch.calls = 1
            /\ ch.sent.reqs <= 1
            /\ ch.endpoint = InitiatingEndpoint[ch.tool]
            /\ \A i \in 1..Len(ch.reqs) :
                  /\ ch.reqs[i].url = API_BASE \o InitiatingEndpoint[ch.tool]
                  /\ ch.reqs[i].url # TaskStatusUrl
                  /\ ch.reqs[i].method = "post"
            /\ ch.outs # <<>> => ch.pc = "returned" /\ Len(ch.outs) = 1
            /\ ApiAnswered(c) => ch.pc = "returned"
       /\ (\E i \in 1..Len(ch.reqs) : ch.reqs[i].url = TaskStatusUrl)
            => ch.tool = "get_task_status" /\ ch.reqs[1].method = "get"

\* download_iso has returned its result after the one request that starts
\* the download was answered with a task.
C24_Witness ==
  /\ chain["c1"].tool = "download_iso"
  /\ chain["c1"].pc = "returned"
  /\ ApiResponded("c1")
  /\ last.resp.body = Body(Obj(<< <<"taskid", Str("UPID:pve:0001")>> >>), Undefined)
  /\ chain["c1"].sent.reqs = 1
  /\ ~chain["c1"].result.isError

\* The shapes in which the remote `data` carries the id of the started task.
TaskData == {Str("UPID:pve:0001"), Obj(<< <<"taskid", Str("UPID:pve:0001")>> >>)}

\* C25: when a tool that starts a long-running operation succeeds on an
\* answer whose `data` carries the task id, as a bare string or as the
\* `taskid` of an object, its result text holds that task id.
C25_TaskIdReturned ==
  \A c \in Chains :
    ( /\ chain[c].tool \in DOMAIN InitiatingEndpoint
      /\ chain[c].pc = "returned"
      /\ ApiResponded(c)
      /\ last.resp.status = 200
      /\ Get(last.resp.body, "data") \in TaskData
      /\ ~chain[c].result.isError )
    => chain[c].result.text =
         Str("{\n  \"success\": true,\n  \"taskid\": \"UPID:pve:0001\"\n}")

\* The optional arguments that a handler forwards under their own name.
OptionalArgs ==
  [stop_vm |-> {"timeout"},
   delete_vm |-> {"force"},
   create_container |-> {"cores", "swap", "net0", "ipaddr", "gateway", "password",
                         "nameserver", "ssh_public_keys", "unprivileged", "description"},
   create_vm_backup |-> {"mode", "compression", "dumpdir", "exclude", "backupdir",
                         "stdout", "pause", "prune", "backupId"},
   migrate_vm |-> {"online", "force", "stop", "stateonly", "with_local_disks"}]

\* C26: in every request a payload-building tool puts on the wire, the key
\* of an optional argument is present exactly when the caller supplied the
\* argument, whatever the supplied value (0 and false included).
C26_OptionalKeyIffSupplied ==
  \A c \in Chains : \A i \in 1..Len(chain[c].reqs) :
    chain[c].tool \in DOMAIN OptionalArgs =>
      \A k \in OptionalArgs[chain[c].tool] :
        Has(WirePayload(chain[c].reqs[i]), k) <=> chain[c].args[k] # Undefined

\* The text of the error result for a creation request that came back empty.
NoResponseText ==
  [create_vm |-> "Error creating VM: VM creation failed: no response from Proxmox API",
   create_container |->
     "Error creating container: Container creation failed: no response from Proxmox API"]

\* The endpoint of the creation request (for the arguments of PayloadToolCalls).
CreationEndpoint == [create_vm |-> "/nodes/pve/qemu", create_container |-> "/nodes/pve/lxc"]

\* C27: create_vm and create_container return a success result only when
\* makeRequest returned a truthy value; on a 2xx answer without `data` they
\* return the isError result naming the missing response; and the only
\* request either of them issues is the creation request itself, so
\* create_vm never requests a start of the VM.
C27_CreationNeedsTaskId ==
  \A c \in Chains :
    LET ch == chain[c]
    IN ch.tool \in DOMAIN NoResponseText =>
         /\ ch.calls = 1
         /\ ch.sent.reqs <= 1
         /\ \A i \in 1..Len(ch.reqs) :
               /\ ch.reqs[i].method = "post"
               /\ ch.reqs[i].url = API_BASE \o CreationEndpoint[ch.tool]
         /\ (ch.pc = "returned" /\ ~ch.result.isError)
              => /\ ch.outs[1].kind = "return"
                 /\ Truthy(ch.outs[1].value)
                 /\ ch.outs[1].value \notin {Undefined, Null, Str("")}
         /\ ( /\ ApiResponded(c)
              /\ last.resp.status \in 200..299
              /\ ~Has(last.resp.body, "data")
              /\ ~Has(last.resp.body, "errors") )
              => /\ ch.pc = "returned"
                 /\ ch.result.isError
                 /\ ch.result.text = Str(NoResponseText[ch.tool])

\* create_vm has returned the error result after its creation request was
\* answered 200 with an empty body object.
C27_Witness ==
  /\ chain["c1"].tool = "create_vm"
  /\ chain["c1"].pc = "returned"
  /\ ApiResponded("c1")
  /\ last.resp = HttpResponse(200, Obj(<<>>))
  /\ chain["c1"].result.isError
  /\ chain["c1"].sent.reqs = 1

\* The payload key and value each `disk` string of PayloadToolCalls stands for.
DiskMeaning ==
  [d \in {"virtio0: local-lvm:20", "scsi0:HDDVOL1:20,format=raw", "ide2 : local-lvm:20",
          "sata10: local-lvm:20", "local-lvm:20", "nvme0: local-lvm:20"} |->
     CASE d = "virtio0: local-lvm:20" -> <<"virtio0", "local-lvm:20">>
       [] d = "scsi0:HDDVOL1:20,format=raw" -> <<"scsi0", "HDDVOL1:20,format=raw">>
       [] d = "ide2 : local-lvm:20" -> <<"ide2", "local-lvm:20">>
       [] d = "sata10: local-lvm:20" -> <<"sata10", "local-lvm:20">>
       [] d = "local-lvm:20" -> <<"scsi0", "local-lvm:20">>
       [] d = "nvme0: local-lvm:20" -> <<"scsi0", "nvme0: local-lvm:20">>]

StorageListing ==
  Arr(<< Obj(<< <<"storage", Str("local")>>, <<"content", Str("iso,backup")>> >>),
         Obj(<< <<"storage", Str("local-lvm")>>, <<"content", Str("images")>> >>),
         Obj(<< <<"storage", Str("nfs")>>, <<"content", Str("images,iso")>> >>) >>)

\* The content of a storage: one ISO and one backup.
StorageContent ==
  Arr(<< Obj(<< <<"volid", Str("iso/debian.iso")>>, <<"content", Str("iso")>> >>),
         Obj(<< <<"volid", Str("backup/vm-100.vma")>>, <<"content", Str("backup")>> >>) >>)

\* The entries list_isos reports for a storage whose content request had
\* the outcome `out`: the ISO of StorageContent tagged with the storage.
IsosReported(storage, out) ==
  IF out = Resolved(StorageContent)
  THEN << Obj(<< <<"volid", Str("iso/debian.iso")>>, <<"content", Str("iso")>>,
                 <<"storage", Str(storage)>> >>) >>
  ELSE <<>>

GuestListing ==
  Arr(<< Obj(<< <<"vmid", Num(100)>>, <<"status", Str("running")>> >>),
         Obj(<< <<"vmid", Num(101)>>, <<"status", Str("stopped")>> >>),
         Obj(<< <<"vmid", Num(102)>>, <<"status", Str("running")>> >>) >>)

\* The running guests of a listing the remote sent: 100 then 102 of
\* GuestListing; the other lists of ToolApiAnswers hold no running guest.
RunningOf(listing) ==
  IF listing = GuestListing
  THEN Arr(<< Obj(<< <<"vmid", Num(100)>>, <<"status", Str("running")>> >>),
              Obj(<< <<"vmid", Num(102)>>, <<"status", Str("running")>> >>) >>)
  ELSE Arr(<<>>)

\* C30: get_running_vms requests /nodes/<node>/qemu and then, only when
\* that request succeeded, /nodes/<node>/lxc; its success result
\* holds as running_vms and running_containers the entries of the two
\* listings whose status is "running", in the order of the listings, and as
\* total_running the sum of the two lengths.
C30_RunningGuests ==
  \A c \in Chains :
    LET ch == chain[c]
    IN ch.tool = "get_running_vms" =>
         /\ ch.calls \in 1..2
         /\ ch.method = "get"
         /\ ch.calls = 1 => ch.endpoint = "/nodes/pve/qemu"
         /\ ch.calls = 2 => /\ ch.endpoint = "/nodes/pve/lxc"
                            /\ ch.outs[1].kind = "return"
         /\ (ch.outs # <<>> /\ ch.outs[1].kind = "throw")
              => /\ ch.calls = 1
                 /\ Len(ch.outs) = 1
                 /\ ReportsError(c, ch.outs[1].message)
         /\ (ch.pc = "returned" /\ ~ch.result.isError)
              => /\ Len(ch.outs) = 2
                 /\ ch.outs[1].value.t = "array" /\ ch.outs[2].value.t = "array"
                 /\ LET vms == RunningOf(ch.outs[1].value)
                        cts == RunningOf(ch.outs[2].value)
                    IN ch.result.text =
                         JSONStringify(Obj(
                           << <<"running_vms", vms>>,
                              <<"running_containers", cts>>,
                              <<"total_running", Num(Len(vms.items) + Len(cts.items))>> >>))

\* get_running_vms has returned guests 100 and 102 as the running VMs and
\* no running container, a total of 2.
C30_Witness ==
  /\ chain["c1"].tool = "get_running_vms"
  /\ chain["c1"].pc = "returned"
  /\ chain["c1"].outs[1] = Resolved(GuestListing)
  /\ chain["c1"].outs[2] = Resolved(StorageContent)
  /\ chain["c1"].result.text =
       Str("{\n  \"running_vms\": [\n    {\n      \"vmid\": 100,\n      \"status\": \"running\"\n    },\n"
           \o "    {\n      \"vmid\": 102,\n      \"status\": \"running\"\n    }\n  ],\n"
           \o "  \"running_containers\": [],\n  \"total_running\": 2\n}")

====
